---- MODULE Spec2Model ----
(***************************************************************************)
(* Event-driven cache consistency and authorization resolution of the      *)
(* seta note/folder sharing service.                                       *)
(*                                                                         *)
(* System of record (PostgreSQL through gorm): owner, shares, members.     *)
(* Cache store (Redis): aclCache/aclTTL  (hash  asset:{id}:acl),           *)
(*                      teamCache/teamTTL (set  team:{id}:members).        *)
(* Event bus (Kafka): goroutines spawned by the controllers, the two       *)
(* topics asset.changes and team.activity, and the caching consumer.       *)
(* Request handlers (resolver calls, GetTeamAssets) are processes whose    *)
(* steps are their accesses to the shared stores.                          *)
(***************************************************************************)
EXTENDS Naturals, Sequences, FiniteSets, TLC

(* ---------------------------- bounds ---------------------------------- *)

\* events the controllers may emit in one run
MaxEvents ==
    2

(* --------------------------- universe --------------------------------- *)

\* concurrent resolver calls (request goroutines of the HTTP server)
Procs ==
    {"p1"}

Users ==
    {"u1", "u2"}

Assets ==
    {"f1"}

Teams ==
    {"t1"}

\* the asset type under which an identifier is routed (folderRoutes.go)
AssetTypeOf(a) ==
    "folder"

\* the user that created the asset; owner_id never changes after creation
CreatorOf(a) ==
    "u1"

\* a hash field / share row that does not exist
Absent ==
    "-"

\* value of folder_shares.access_level: CHECK (access_level IN ('read','write'))
Levels ==
    {"read", "write"}

\* no folders/notes row for the identifier
NoOwner ==
    "none"

\* *errorHandling.CustomError: nil, or the Code of the error
ErrNil ==
    "nil"

StatusNotFound ==
    "404"

StatusInternalServerError ==
    "500"

StatusForbidden ==
    "403"

VARIABLES
    owner,      \* [Assets -> Users \cup {NoOwner}]   folders.owner_id
    shares,     \* [Assets -> [Users -> Levels \cup {Absent}]]  folder_shares
    members,    \* [Teams -> SUBSET Users]            team_members
    aclCache,   \* [Assets -> [Users -> Levels \cup {Absent}]]  asset:{id}:acl
    aclTTL,     \* [Assets -> BOOLEAN]  the ACL key carries an expiry
                \* (every command to the store may fail: `up` in the actions)
    teamCache,  \* [Teams -> SUBSET Users]            team:{id}:members
    teamTTL,    \* [Teams -> BOOLEAN]   the members key carries an expiry
    emptyWrites,\* number of write commands sent to the store with no element
    spawned,    \* events held by `go kafka.Produce...` goroutines
    assetTopic, \* asset.changes, not yet consumed by caching-group
    teamTopic,  \* team.activity, not yet consumed by caching-group
    emitted,    \* events emitted so far
    req,        \* [Procs -> resolver call]
    treq,       \* the GetTeamAssets call
    memberHist, \* [Teams -> SUBSET SUBSET Users] memberships the team has had
    lastCall,   \* the last call made to a cache adapter, with its argument
    got,        \* what the last adapter get returned
    kind,       \* the loop the consumers run: "consume" or "Start"
    cancelled,  \* external cancellation has been signalled (ctx.Done())
    writer,     \* [Topics -> [Partitions -> Nat]] the balancer's counters
    parts,      \* [Topics -> [Partitions -> Seq(message)]] unread messages
    loop,       \* [Topics -> consumer goroutine]
    clog,       \* [Topics -> history of the consumer], read by properties
    names,      \* [Assets -> Names]                  folders.name
    metaCache,  \* [MetaKeys -> JSON \cup {Nil}]      {assetType}:{assetId}
    fget,       \* the GetFolder call
    fupd,       \* the UpdateFolder call
    times,      \* the clock, the time of the query behind each ACL field and
                \* the deadline of each ACL key; the clock moves in SpecTTL
    sreq,       \* the last call of the folder sharing use cases
    managers    \* [Teams -> team_managers rows of the team]  user_id, is_lead

dbVars ==
    <<owner, shares, members, memberHist>>

aclVars ==
    <<aclCache, aclTTL>>

teamCacheVars ==
    <<teamCache, teamTTL>>

consVars ==
    <<kind, cancelled, writer, parts, loop, clog>>

busVars ==
    <<spawned, assetTopic, teamTopic, emitted, consVars>>

vars ==
    <<owner, shares, members, aclCache, aclTTL, teamCache, teamTTL,
      emptyWrites, spawned, assetTopic, teamTopic, emitted, req, treq,
      memberHist, lastCall, got, kind, cancelled, writer, parts, loop, clog,
      names, metaCache, fget, fupd, times, sreq, managers>>

metaVars ==
    <<names, metaCache, fget, fupd, times, sreq, managers>>

reqVars ==
    <<req, treq, lastCall, got>>

(* ------------------------- cache store -------------------------------- *)

NoFields ==
    [u \in Users |-> Absent]

\* a Redis hash exists exactly while it has a field
KeyExists(hash) ==
    \E u \in Users : hash[u] # Absent

\* HGet whose error is not looked at: a failed command reads as an empty value
HGetErrorAsEmpty(hash, field, up) ==
    IF up /\ hash[field] # Absent
    THEN [val |-> hash[field], err |-> FALSE]
    ELSE IF ~up
    THEN [val |-> "", err |-> FALSE]
    ELSE [val |-> "", err |-> TRUE]

\* HGET key field: err == nil only when the store answers and the field exists
HGet(hash, field, up) ==
    IF up /\ hash[field] # Absent
    THEN [val |-> hash[field], err |-> FALSE]
    ELSE [val |-> "", err |-> TRUE]

\* HSet sent to another key: the hash of the asset stays as it was
HSetElsewhere(hash, acl) ==
    hash

\* HSET key map: sets the given fields, every other field of the hash stays
HSet(hash, acl) ==
    [u \in Users |-> IF acl[u] # Absent THEN acl[u] ELSE hash[u]]

(* ----------------------- authorization service ------------------------ *)

\* IsAssetOwner with Pluck into a scalar, which reports no ErrRecordNotFound:
\* a missing row leaves the zero owner_id
IsAssetOwnerPluck(userID, assetType, ownerRow, dbOk) ==
    IF assetType \notin {"folder", "note"}
    THEN [isOwner |-> FALSE, err |-> StatusInternalServerError]
    ELSE IF ~dbOk
    THEN [isOwner |-> FALSE, err |-> StatusInternalServerError]
    ELSE [isOwner |-> userID = ownerRow, err |-> ErrNil]

\* IsAssetOwner: ownerRow is the owner_id Take() finds (NoOwner: no row),
\* dbOk is FALSE when the query fails for another reason
IsAssetOwner(userID, assetType, ownerRow, dbOk) ==
    IF assetType \notin {"folder", "note"}
    THEN [isOwner |-> FALSE, err |-> StatusInternalServerError]
    ELSE IF ~dbOk
    THEN [isOwner |-> FALSE, err |-> StatusInternalServerError]
    ELSE IF ownerRow = NoOwner
    THEN [isOwner |-> FALSE, err |-> StatusNotFound]
    ELSE [isOwner |-> userID = ownerRow, err |-> ErrNil]

\* fetchAndBuildACL that logs the query error and answers an empty ACL
fetchAndBuildACLSwallow(assetType, shareRows, dbOk) ==
    IF assetType \in {"folder", "note"} /\ dbOk
    THEN [acl |-> shareRows, err |-> ErrNil]
    ELSE [acl |-> [u \in Users |-> Absent], err |-> ErrNil]

\* fetchAndBuildACL: shareRows are the share rows of the asset
fetchAndBuildACL(assetType, shareRows, dbOk) ==
    IF assetType \in {"folder", "note"}
    THEN IF dbOk
         THEN [acl |-> shareRows, err |-> ErrNil]
         ELSE [acl |-> NoFields, err |-> StatusInternalServerError]
    ELSE [acl |-> NoFields, err |-> ErrNil]

\* the tail of getAccessFromCacheOrDB: the user's entry of the rebuilt ACL
AccessOf(acl, userID) ==
    IF acl[userID] # Absent THEN acl[userID] ELSE ""

\* CanAccessAsset's verdict on the resolved access level
CanAccessAsset(access) ==
    access = "read" \/ access = "write"

\* CanWriteAsset that accepts any share
CanWriteAssetAnyShare(access) ==
    access = "read" \/ access = "write"

\* CanWriteAsset's verdict on the resolved access level
CanWriteAsset(access) ==
    access = "write"

Verdict(op, access) ==
    IF op = "read" THEN CanAccessAsset(access) ELSE CanWriteAsset(access)

\* AssetAccessMiddleware after checkFunc returned (hasPermission, customErr):
\* customErr.Code is read first, also when customErr is nil
AssetAccessMiddleware(hasPermission, customErr) ==
    IF customErr = ErrNil
    THEN "panic"
    ELSE IF customErr # "0"
    THEN "abort" \o customErr
    ELSE IF ~hasPermission
    THEN "abort" \o StatusForbidden
    ELSE "next"

(* ------------------------- resolver calls ----------------------------- *)

\* Expire(ctx, aclCacheKey, 1*time.Hour), in ticks of the clock
Hour ==
    3

\* the clock stops here
MaxNow ==
    4

\* the clock at 0; no field written; the deadline of a key is read only
\* while the key carries an expiry
NoTimes ==
    [now |-> 0, born |-> [a \in Assets |-> [u \in Users |-> 0]],
     deadline |-> [a \in Assets |-> Hour]]

IdleReq ==
    [pc |-> "idle", op |-> "read", userID |-> "u1", assetID |-> "f1",
     isOwner |-> FALSE, acl |-> NoFields, access |-> "", ok |-> FALSE,
     err |-> ErrNil, http |-> "",
     \* history of the call, read by the properties only
     live |-> FALSE, after |-> FALSE, dbOwner |-> NoOwner, qShare |-> Absent,
     dbFail |-> FALSE, hit |-> FALSE, queried |-> FALSE,
     anyUp |-> FALSE, anyDown |-> FALSE, qAt |-> 0, age |-> 0]

\* the call returns (ok, err) to AssetAccessMiddleware
Return(r, ok, err) ==
    [r EXCEPT !.pc = "done", !.ok = ok, !.err = err,
              !.http = AssetAccessMiddleware(ok, err)]

\* the owner is sent through the ACL like every other user
OwnerShortCircuitErrOnly(isOwner, ownerErr) ==
    ownerErr # ErrNil

\* `if ownerErr != nil || isOwner`: the call returns without the ACL
OwnerShortCircuit(isOwner, ownerErr) ==
    ownerErr # ErrNil \/ isOwner

\* the rebuilt ACL starts from the cached hash instead of an empty map
ShareRowsOntoCached(a) ==
    [u \in Users |-> IF shares[a][u] # Absent THEN shares[a][u]
                     ELSE aclCache[a][u]]

\* the rows `Where("folder_id = ?", assetID).Find(&shares)` returns
ShareRowsOf(a) ==
    shares[a]

\* `if len(acl) > 0` before the cache is populated
PopulateACL(acl) ==
    KeyExists(acl)

\* the last asset event dispatched was a share of asset a with user u, its
\* Del succeeded, the field of u in the hash is as the dispatch left it, and
\* the share row gives "write"
AfterShareEvent(a, u) ==
    LET h == clog["asset.changes"].last
    IN  /\ h.done
        /\ h.value.json
        /\ h.value.payload.eventType \in {"FOLDER_SHARED", "NOTE_SHARED"}
        /\ h.value.payload.assetId = a
        /\ h.value.payload.targetUserId = u
        /\ h.store = <<aclCache[a][u]>>
        /\ shares[a][u] = "write"

\* a resolver that looks in the cache before it asks who owns the asset
StartAtCache(p) ==
    /\ req[p].pc = "idle"
    /\ \E op \in {"read", "write"}, u \in Users, a \in Assets :
          req' = [req EXCEPT ![p] =
                    [IdleReq EXCEPT !.pc = "hget", !.op = op, !.userID = u,
                                    !.assetID = a,
                                    !.live = shares[a][u] # Absent,
                                    !.after = AfterShareEvent(a, u)]]
    /\ UNCHANGED <<metaVars, dbVars, aclVars, teamCacheVars, emptyWrites,
                   busVars, treq, lastCall, got>>

\* a request for CanAccessAsset (op "read") or CanWriteAsset (op "write")
Start(p) ==
    /\ req[p].pc = "idle"
    /\ \E op \in {"read", "write"}, u \in Users, a \in Assets :
          req' = [req EXCEPT ![p] =
                    [IdleReq EXCEPT !.pc = "owner", !.op = op, !.userID = u,
                                    !.assetID = a,
                                    !.live = shares[a][u] # Absent,
                                    !.after = AfterShareEvent(a, u)]]
    /\ UNCHANGED <<metaVars, dbVars, aclVars, teamCacheVars, emptyWrites,
                   busVars, treq, lastCall, got>>

\* IsAssetOwner and `if ownerErr != nil || isOwner { return isOwner, ownerErr }`
OwnerCheck(p) ==
    /\ req[p].pc = "owner"
    /\ \E dbOk \in BOOLEAN :
          LET r == req[p]
              o == IsAssetOwner(r.userID, AssetTypeOf(r.assetID),
                                owner[r.assetID], dbOk)
              r1 == [r EXCEPT !.isOwner = o.isOwner, !.dbFail = ~dbOk,
                              !.dbOwner = owner[r.assetID]]
          IN  req' = [req EXCEPT ![p] =
                        IF OwnerShortCircuit(o.isOwner, o.err)
                        THEN Return(r1, o.isOwner, o.err)
                        ELSE [r1 EXCEPT !.pc = "hget"]]
    /\ UNCHANGED <<metaVars, dbVars, aclVars, teamCacheVars, emptyWrites,
                   busVars, treq, lastCall, got>>

\* getAccessFromCacheOrDB: HGet, and the return on err == nil
CacheLookup(p) ==
    /\ req[p].pc = "hget"
    /\ \E up \in BOOLEAN :
          LET r == req[p]
              g == HGet(aclCache[r.assetID], r.userID, up)
          IN  req' = [req EXCEPT ![p] =
                        IF ~g.err
                        THEN Return([r EXCEPT !.access = g.val, !.hit = TRUE,
                                              !.anyUp = up,
                                              !.age = times.now
                                                - times.born[r.assetID][r.userID]],
                                    Verdict(r.op, g.val), ErrNil)
                        ELSE [r EXCEPT !.pc = "fetch", !.anyUp = up,
                                       !.anyDown = ~up]]
    /\ UNCHANGED <<metaVars, dbVars, aclVars, teamCacheVars, emptyWrites,
                   busVars, treq, lastCall, got>>

\* getAccessFromCacheOrDB: fetchAndBuildACL, its error return, and the
\* return without populating when the ACL is empty
Fetch(p) ==
    /\ req[p].pc = "fetch"
    /\ \E dbOk \in BOOLEAN :
          LET r == req[p]
              f == fetchAndBuildACL(AssetTypeOf(r.assetID),
                                    ShareRowsOf(r.assetID), dbOk)
              r1 == [r EXCEPT !.acl = f.acl, !.queried = TRUE,
                              !.qShare = shares[r.assetID][r.userID],
                              !.dbFail = ~dbOk, !.qAt = times.now,
                              !.access = AccessOf(f.acl, r.userID)]
          IN  req' = [req EXCEPT ![p] =
                        IF f.err # ErrNil
                        THEN Return([r1 EXCEPT !.access = ""], FALSE, f.err)
                        ELSE IF PopulateACL(f.acl)
                        THEN [r1 EXCEPT !.pc = "hset"]
                        ELSE Return(r1, Verdict(r.op, r1.access), ErrNil)]
    /\ UNCHANGED <<metaVars, dbVars, aclVars, teamCacheVars, emptyWrites,
                   busVars, treq, lastCall, got>>

\* getAccessFromCacheOrDB: database.Rdb.HSet(ctx, aclCacheKey, acl); the
\* result of the command is not looked at
Populate(p) ==
    /\ req[p].pc = "hset"
    /\ \E up \in BOOLEAN :
          LET r == req[p]
              a == r.assetID
          IN  /\ req' = [req EXCEPT ![p] =
                           [r EXCEPT !.pc = "expire", !.acl = NoFields,
                                     !.anyUp = @ \/ up, !.anyDown = @ \/ ~up]]
              /\ emptyWrites' = IF KeyExists(r.acl) THEN emptyWrites ELSE 1
              /\ IF up /\ KeyExists(r.acl)
                 THEN /\ aclCache' = [aclCache EXCEPT ![a] = HSet(@, r.acl)]
                      /\ aclTTL' = [aclTTL EXCEPT ![a] =
                                      KeyExists(aclCache[a]) /\ @]
                      /\ times' = [times EXCEPT !.born[a] =
                                     [u \in Users |->
                                        IF r.acl[u] # Absent THEN r.qAt
                                        ELSE @[u]]]
                 ELSE UNCHANGED <<aclVars, times>>
    /\ UNCHANGED <<sreq, managers, names, metaCache, fget, fupd, dbVars, teamCacheVars,
                   busVars, treq, lastCall, got>>

\* getAccessFromCacheOrDB: database.Rdb.Expire(ctx, aclCacheKey, 1*time.Hour)
\* and the return of the user's entry of the rebuilt ACL
ExpireAndReturn(p) ==
    /\ req[p].pc = "expire"
    /\ \E up \in BOOLEAN :
          LET r == req[p]
              a == r.assetID
          IN  /\ req' = [req EXCEPT ![p] =
                           Return([r EXCEPT !.anyUp = @ \/ up,
                                            !.anyDown = @ \/ ~up],
                                  Verdict(r.op, r.access), ErrNil)]
              /\ aclTTL' = [aclTTL EXCEPT ![a] =
                              IF up /\ KeyExists(aclCache[a]) THEN TRUE ELSE @]
              /\ times' = IF up /\ KeyExists(aclCache[a])
                          THEN [times EXCEPT !.deadline[a] = times.now + Hour]
                          ELSE times
    /\ UNCHANGED <<sreq, managers, names, metaCache, fget, fupd, dbVars, aclCache,
                   teamCacheVars, emptyWrites, busVars, treq, lastCall, got>>

\* the response is written; the goroutine serves the next request
Finish(p) ==
    /\ req[p].pc = "done"
    /\ req' = [req EXCEPT ![p] = IdleReq]
    /\ UNCHANGED <<metaVars, dbVars, aclVars, teamCacheVars, emptyWrites,
                   busVars, treq, lastCall, got>>

(* --------------------------- event bus -------------------------------- *)

\* kafka.EventPayload; id numbers the events in the order of their commits
Event(id, eventType, teamId, assetType, assetId, target) ==
    [id |-> id, eventType |-> eventType, teamId |-> teamId,
     assetType |-> assetType, assetId |-> assetId, targetUserId |-> target]

\* json.Marshal(payload): the bytes of a message that carry the payload
Marshal(payload) ==
    [json |-> TRUE, payload |-> payload]

\* a message whose value json.Unmarshal rejects
Malformed ==
    [json |-> FALSE, payload |-> Event(0, "", "", "", "", "")]

\* the record of a dispatch: the message, whether every command it sent
\* succeeded, the store as the handler found it and as it left it
Dispatched(m, done, before, store) ==
    [value |-> m.value, done |-> done, before |-> before, store |-> store]

ShareEvents ==
    {"FOLDER_SHARED", "NOTE_SHARED", "FOLDER_UNSHARED", "NOTE_UNSHARED"}

\* `go kafka.ProduceAssetEvent(...)` / `go kafka.ProduceTeamEvent(...)`
Spawn(e) ==
    /\ spawned' = spawned \cup {e}
    /\ emitted' = emitted + 1
    /\ UNCHANGED <<assetTopic, teamTopic, consVars>>

\* ProduceAssetEvent: assetWriter.WriteMessages
ProduceAssetEvent ==
    /\ \E e \in spawned :
          /\ e.assetId # ""
          /\ assetTopic' = Append(assetTopic, e)
          /\ spawned' = spawned \ {e}
    /\ UNCHANGED <<metaVars, dbVars, aclVars, teamCacheVars, emptyWrites,
                   teamTopic, emitted, reqVars, consVars>>

\* assetKey := payload.AssetType + ":" + payload.AssetID
MetaKey(assetType, assetId) ==
    assetType \o ":" \o assetId

\* the snapshot keys of the assets that exist
MetaKeys ==
    {MetaKey(AssetTypeOf(a), a) : a \in Assets}

\* key := "team:" + payload.TeamID + ":members"
TeamKey(teamId) ==
    "team:" \o teamId \o ":members"

\* aclKey := "asset:" + payload.AssetID + ":acl"
ACLKey(assetId) ==
    "asset:" \o assetId \o ":acl"

\* a test of the identifier alone
InvalidatesAssetByID(assetType, assetId) ==
    assetId # ""

\* `if payload.AssetType != "" && payload.AssetID != ""`: the snapshot key is
\* deleted, whatever the event type
InvalidatesAsset(assetType, assetId) ==
    assetType # "" /\ assetId # ""

\* what the store holds under a string key that does not exist (redis.Nil)
Nil ==
    [nil |-> TRUE]

\* rdb.Del(ctx, key) on the snapshot keys
Del(store, key) ==
    [k \in DOMAIN store |-> IF k = key THEN Nil ELSE store[k]]

\* the outcomes of a Del that tell apart: the command on a key that is there
\* succeeds or fails, on a key that is not there it changes nothing
DelOutcomes(store, key) ==
    IF key \in DOMAIN store /\ store[key] # Nil THEN BOOLEAN ELSE {TRUE}

\* a handler that deletes the ACL key on every asset event
InvalidatesACLAlways(eventType) ==
    TRUE

\* a switch that takes the share events for unshare events only
InvalidatesACLOnRevoke(eventType) ==
    eventType \in {"FOLDER_UNSHARED", "NOTE_UNSHARED"}

\* handleAssetEvent's switch on payload.EventType: the ACL key to delete
InvalidatesACL(eventType) ==
    eventType \in ShareEvents

\* the field of the event's target user in the ACL hash of the event's asset
TargetField(cache, e) ==
    IF e.assetId \in Assets /\ e.targetUserId \in Users
    THEN cache[e.assetId][e.targetUserId]
    ELSE Absent

\* a handler that deletes the share rows of the asset along with the ACL key
handleAssetEventPurging ==
    /\ assetTopic # <<>>
    /\ LET e == Head(assetTopic)
           sends == InvalidatesACL(e.eventType) /\ e.assetId \in Assets
       IN  /\ assetTopic' = Tail(assetTopic)
           /\ IF sends
              THEN /\ aclCache' = [aclCache EXCEPT ![e.assetId] = NoFields]
                   /\ aclTTL' = [aclTTL EXCEPT ![e.assetId] = FALSE]
                   /\ shares' = [shares EXCEPT ![e.assetId] = NoFields]
              ELSE UNCHANGED <<aclVars, shares>>
           /\ metaCache' = IF InvalidatesAsset(e.assetType, e.assetId)
                           THEN Del(metaCache, MetaKey(e.assetType, e.assetId))
                           ELSE metaCache
           /\ clog' = [clog EXCEPT !["asset.changes"].last =
                         Dispatched([value |-> Marshal(e)], TRUE,
                                    <<TargetField(aclCache, e)>>,
                                    <<TargetField(aclCache', e)>>)]
    /\ UNCHANGED <<times, sreq, managers, names, fget, fupd, owner, members, memberHist,
                   teamCacheVars, emptyWrites, spawned, teamTopic, emitted,
                   reqVars, kind, cancelled, writer, parts, loop>>

\* consume + handleAssetEvent for the next message of asset.changes: the Del
\* of the snapshot key, then the Del of the ACL key; the results of the Del
\* commands are not looked at. The record of the dispatch is that of the ACL
\* key: its command, and the field of the event's target before and after.
handleAssetEvent ==
    /\ assetTopic # <<>>
    /\ \E up \in BOOLEAN :
        \E upMeta \in DelOutcomes(metaCache,
                                  MetaKey(Head(assetTopic).assetType,
                                          Head(assetTopic).assetId)) :
          LET e == Head(assetTopic)
              sendsMeta == InvalidatesAsset(e.assetType, e.assetId)
              sends == InvalidatesACL(e.eventType) /\ e.assetId \in Assets
          IN  /\ assetTopic' = Tail(assetTopic)
              /\ metaCache' = IF upMeta /\ sendsMeta
                              THEN Del(metaCache,
                                       MetaKey(e.assetType, e.assetId))
                              ELSE metaCache
              /\ IF up /\ sends
                 THEN /\ aclCache' = [aclCache EXCEPT ![e.assetId] = NoFields]
                      /\ aclTTL' = [aclTTL EXCEPT ![e.assetId] = FALSE]
                 ELSE UNCHANGED aclVars
              /\ clog' = [clog EXCEPT !["asset.changes"].last =
                            Dispatched([value |-> Marshal(e)], ~sends \/ up,
                                       <<TargetField(aclCache, e)>>,
                                       <<TargetField(aclCache', e)>>)]
    /\ UNCHANGED <<times, sreq, managers, names, fget, fupd, dbVars, teamCacheVars, emptyWrites, spawned,
                   teamTopic, emitted, reqVars, kind, cancelled, writer,
                   parts, loop>>

(* ----------------------- folder controller ---------------------------- *)

\* ShareFolder: Create(&share) fails on an existing (folder_id, user_id), on a
\* missing folder and on an access level outside the CHECK constraint
ShareFolder ==
    /\ emitted < MaxEvents
    /\ \E a \in Assets, u \in Users, lvl \in Levels :
          /\ owner[a] # NoOwner
          /\ shares[a][u] = Absent
          /\ shares' = [shares EXCEPT ![a][u] = lvl]
          /\ Spawn(Event(emitted + 1, "FOLDER_SHARED", "", AssetTypeOf(a), a, u))
          /\ req' = [p \in Procs |->
                       IF req[p].pc # "idle" /\ req[p].assetID = a
                          /\ req[p].userID = u
                       THEN [req[p] EXCEPT !.live = TRUE]
                       ELSE req[p]]
    /\ UNCHANGED <<metaVars, owner, members, memberHist, aclVars, teamCacheVars,
                  emptyWrites, treq, lastCall, got>>

\* RevokeFolderSharing: RowsAffected == 0 answers 404 and emits nothing
RevokeFolderSharing ==
    /\ emitted < MaxEvents
    /\ \E a \in Assets, u \in Users :
          /\ shares[a][u] # Absent
          /\ shares' = [shares EXCEPT ![a][u] = Absent]
          /\ Spawn(Event(emitted + 1, "FOLDER_UNSHARED", "", AssetTypeOf(a), a, u))
    /\ UNCHANGED <<metaVars, owner, members, memberHist, aclVars, teamCacheVars,
                  emptyWrites, reqVars>>

\* DeleteFolder: the folder and its shares go in one transaction
DeleteFolder ==
    /\ emitted < MaxEvents
    /\ \E a \in Assets :
          /\ owner[a] # NoOwner
          /\ owner' = [owner EXCEPT ![a] = NoOwner]
          /\ shares' = [shares EXCEPT ![a] = NoFields]
          /\ Spawn(Event(emitted + 1, "FOLDER_DELETED", "", AssetTypeOf(a), a, ""))
    /\ UNCHANGED <<metaVars, members, memberHist, aclVars, teamCacheVars,
                   emptyWrites, reqVars>>

\* Access.IsValid that takes every non-empty level
IsValidNonEmpty(a) ==
    a # ""

\* Access.IsValid: `case ReadAccess, WriteAccess: return true`
IsValid(a) ==
    a \in {"read", "write"}

\* the access levels a request may carry
AccessLevels ==
    {"read", "write", "admin"}

\* no call of the sharing use cases yet
NoShareReq ==
    [op |-> "none", folderID |-> "f1", requester |-> "u1", target |-> "u1",
     level |-> "", failed |-> FALSE]

\* ShareFolderUseCase.Execute: FindByID, the owner test, the level test, the
\* upsert of the share (OnConflict UpdateAll), `go PublishAssetEvent`
ShareFolderExecute ==
    /\ emitted < MaxEvents
    /\ \E a \in Assets, requester \in Users, u \in Users,
          lvl \in AccessLevels, dbOk \in BOOLEAN :
          LET found == owner[a] # NoOwner
              passes == /\ found
                        /\ owner[a] = requester
                        /\ IsValid(lvl)
                        /\ dbOk
          IN  /\ sreq' = [op |-> "share", folderID |-> a,
                          requester |-> requester, target |-> u,
                          level |-> lvl, failed |-> ~passes]
              /\ IF passes
                 THEN /\ shares' = [shares EXCEPT ![a][u] = lvl]
                      /\ Spawn(Event(emitted + 1, "FOLDER_SHARED", "",
                                     "folder", a, u))
                 ELSE UNCHANGED <<shares, busVars>>
    /\ UNCHANGED <<names, metaCache, fget, fupd, times, managers, owner,
                   members, memberHist, aclVars, teamCacheVars, emptyWrites,
                   reqVars>>

\* UnshareFolderUseCase.Execute: FindByID, the owner test, the Delete of the
\* share (no row deleted is no error), `go PublishAssetEvent`
UnshareFolderExecute ==
    /\ emitted < MaxEvents
    /\ \E a \in Assets, requester \in Users, u \in Users, dbOk \in BOOLEAN :
          LET found == owner[a] # NoOwner
              passes == found /\ owner[a] = requester /\ dbOk
          IN  /\ sreq' = [op |-> "unshare", folderID |-> a,
                          requester |-> requester, target |-> u,
                          level |-> "", failed |-> ~passes]
              /\ IF passes
                 THEN /\ shares' = [shares EXCEPT ![a][u] = Absent]
                      /\ Spawn(Event(emitted + 1, "FOLDER_UNSHARED", "",
                                     "folder", a, u))
                 ELSE UNCHANGED <<shares, busVars>>
    /\ UNCHANGED <<names, metaCache, fget, fupd, times, managers, owner,
                   members, memberHist, aclVars, teamCacheVars, emptyWrites,
                   reqVars>>

\* folders.name takes these values
Names ==
    {"n1", "n2"}

\* models.Folder
Folder(folderId, name, ownerId) ==
    [folderId |-> folderId, name |-> name, ownerId |-> ownerId]

\* `var folder models.Folder`: the zero value
ZeroFolder ==
    Folder("", "", "")

\* the row of the folder in the system of record (owner NoOwner: no row)
FolderRow(a) ==
    Folder(a, names[a], owner[a])

\* a stored value that json.Unmarshal rejects
Undecodable ==
    [json |-> FALSE, payload |-> ZeroFolder]

\* json.Unmarshal([]byte(cachedFolder), &folder): on an error the variable
\* stays as it was declared
UnmarshalFolder(value) ==
    IF value.json
    THEN [err |-> FALSE, folder |-> value.payload]
    ELSE [err |-> TRUE, folder |-> ZeroFolder]

\* no response written yet
NoResponse ==
    [code |-> "", body |-> ZeroFolder]

IdleFolderReq ==
    [pc |-> "idle", assetID |-> "f1", folder |-> ZeroFolder,
     resp |-> NoResponse,
     \* history of the call, read by the properties only
     hit |-> FALSE, corrupt |-> FALSE]

\* GetFolder: database.Rdb.Get(ctx, cacheKey); on err == nil the cached value
\* is decoded, the error of json.Unmarshal is not looked at, and the folder
\* is the response
GetFolderLookup ==
    /\ fget.pc = "idle"
    /\ \E a \in Assets, up \in BOOLEAN :
          LET cached == metaCache[MetaKey("folder", a)]
              d == UnmarshalFolder(cached)
          IN  fget' = IF up /\ cached # Nil
                      THEN [IdleFolderReq EXCEPT
                              !.pc = "done", !.assetID = a, !.folder = d.folder,
                              !.resp = [code |-> "200", body |-> d.folder],
                              !.hit = TRUE, !.corrupt = d.err]
                      ELSE [IdleFolderReq EXCEPT !.pc = "first", !.assetID = a]
    /\ UNCHANGED <<dbVars, aclVars, teamCacheVars, emptyWrites, busVars,
                   reqVars, times, sreq, managers, names, metaCache, fupd>>

\* GetFolder: First(&folder, "folder_id = ?", folderID); any error answers 404
GetFolderFirst ==
    /\ fget.pc = "first"
    /\ \E dbOk \in BOOLEAN :
          LET a == fget.assetID
          IN  fget' = IF dbOk /\ owner[a] # NoOwner
                      THEN [fget EXCEPT !.pc = "set", !.folder = FolderRow(a)]
                      ELSE [fget EXCEPT !.pc = "done",
                                        !.resp = [code |-> StatusNotFound,
                                                  body |-> ZeroFolder]]
    /\ UNCHANGED <<dbVars, aclVars, teamCacheVars, emptyWrites, busVars,
                   reqVars, times, sreq, managers, names, metaCache, fupd>>

\* GetFolder: database.Rdb.Set(ctx, cacheKey, folderJSON, 24*time.Hour), its
\* result not looked at, and the response
GetFolderPopulate ==
    /\ fget.pc = "set"
    /\ \E up \in BOOLEAN :
          metaCache' = IF up
                       THEN [metaCache EXCEPT
                               ![MetaKey("folder", fget.assetID)] =
                                   Marshal(fget.folder)]
                       ELSE metaCache
    /\ fget' = [fget EXCEPT !.pc = "done",
                            !.resp = [code |-> "200", body |-> fget.folder]]
    /\ UNCHANGED <<dbVars, aclVars, teamCacheVars, emptyWrites, busVars,
                   reqVars, times, sreq, managers, names, fupd>>

\* the response is written; the goroutine serves the next request
GetFolderFinish ==
    /\ fget.pc = "done"
    /\ fget' = IdleFolderReq
    /\ UNCHANGED <<dbVars, aclVars, teamCacheVars, emptyWrites, busVars,
                   reqVars, times, sreq, managers, names, metaCache, fupd>>

\* UpdateFolder: First(&folder, ...) and Model(&folder).Update("name", ...),
\* which also sets the name of the variable
UpdateFolderCommit ==
    /\ fupd.pc = "idle"
    /\ emitted < MaxEvents
    /\ \E a \in Assets, name \in Names :
          /\ owner[a] # NoOwner
          /\ names' = [names EXCEPT ![a] = name]
          /\ fupd' = [IdleFolderReq EXCEPT
                        !.pc = "set", !.assetID = a,
                        !.folder = Folder(a, name, owner[a])]
    /\ UNCHANGED <<dbVars, aclVars, teamCacheVars, emptyWrites, busVars,
                   reqVars, times, sreq, managers, metaCache, fget>>

\* UpdateFolder: the write-through Set, its result not looked at, then
\* `go kafka.ProduceAssetEvent(...)` with FOLDER_UPDATED and the response
UpdateFolderSet ==
    /\ fupd.pc = "set"
    /\ \E up \in BOOLEAN :
          metaCache' = IF up
                       THEN [metaCache EXCEPT
                               ![MetaKey("folder", fupd.assetID)] =
                                   Marshal(fupd.folder)]
                       ELSE metaCache
    /\ Spawn(Event(emitted + 1, "FOLDER_UPDATED", "", "folder",
                   fupd.assetID, ""))
    /\ fupd' = IdleFolderReq
    /\ UNCHANGED <<dbVars, aclVars, teamCacheVars, emptyWrites, reqVars,
                   times, sreq, managers, names, fget>>

\* the 24 hours given to Set pass
ExpireMetaKey ==
    /\ \E k \in MetaKeys :
          /\ metaCache[k] # Nil
          /\ metaCache' = Del(metaCache, k)
    /\ UNCHANGED <<dbVars, aclVars, teamCacheVars, emptyWrites, busVars,
                   reqVars, times, sreq, managers, names, fget, fupd>>

IdleTeamReq ==
    [pc |-> "idle", teamID |-> "t1", memberIDs |-> {}, hit |-> FALSE,
     err |-> ErrNil]

\* uuid.UUID{}: the zero identifier
ZeroUUID ==
    "00000000"

\* a member of the cached set that is not the text of a UUID
Garbled ==
    "not-a-uuid"

\* uuid.Parse(idStr)
Parse(idStr) ==
    IF idStr \in Users
    THEN [id |-> idStr, err |-> FALSE]
    ELSE [id |-> ZeroUUID, err |-> TRUE]

NoCall ==
    [op |-> "", key |-> "", empty |-> FALSE, tick |-> FALSE]

NoResult ==
    [miss |-> TRUE, n |-> 0]

(* -------------------------- team use cases ---------------------------- *)

\* team.Manager: not a manager, a manager (IsLead false), the lead
Roles ==
    {"none", "manager", "lead"}

\* no row in teams
NoTeam ==
    [exists |-> FALSE, role |-> [u \in Users |-> "none"]]

\* a team whose only manager is its lead u
LedBy(u) ==
    [exists |-> TRUE,
     role |-> [v \in Users |-> IF v = u THEN "lead" ELSE "none"]]

\* the count of `manager.IsLead` over input.Managers
leadManagerCount(mgrs) ==
    Cardinality({u \in Users : mgrs[u] = "lead"})

\* IsLeadManager: Count of the rows with is_lead = true for the user
IsLeadManager(team, userID) ==
    team.exists /\ team.role[userID] = "lead"

\* CreateTeamUseCase.Execute: the creator among the managers, exactly one
\* lead, Save in a transaction, `go PublishTeamEvent`
CreateTeamExecute ==
    /\ emitted < MaxEvents
    /\ \E t \in Teams, creator \in Users, mgrs \in [Users -> Roles],
          mbrs \in SUBSET Users :
          /\ ~managers[t].exists
          /\ mgrs[creator] # "none"
          /\ leadManagerCount(mgrs) = 1
          /\ managers' = [managers EXCEPT ![t] =
                            [exists |-> TRUE, role |-> mgrs]]
          /\ members' = [members EXCEPT ![t] = mbrs]
          /\ memberHist' = [memberHist EXCEPT ![t] = @ \cup {mbrs}]
          /\ Spawn(Event(emitted + 1, "TEAM_CREATED", t, "", "", ""))
    /\ UNCHANGED <<names, metaCache, fget, fupd, times, sreq, owner, shares,
                   aclVars, teamCacheVars, emptyWrites, reqVars>>

\* AddManagerUseCase.Execute: the requester is the lead; the new row has
\* IsLead false; Create fails on an existing (team_id, user_id)
AddManagerExecute ==
    /\ emitted < MaxEvents
    /\ \E t \in Teams, requester \in Users, u \in Users :
          /\ IsLeadManager(managers[t], requester)
          /\ managers[t].role[u] = "none"
          /\ managers' = [managers EXCEPT ![t].role[u] = "manager"]
          /\ Spawn(Event(emitted + 1, "MANAGER_ADDED", t, "", "", u))
    /\ UNCHANGED <<names, metaCache, fget, fupd, times, sreq, dbVars,
                   aclVars, teamCacheVars, emptyWrites, reqVars>>

\* RemoveManagerUseCase.Execute: the requester is the lead; Delete of the row
\* of input.ManagerID (no row deleted is no error)
RemoveManagerExecute ==
    /\ emitted < MaxEvents
    /\ \E t \in Teams, requester \in Users, u \in Users :
          /\ IsLeadManager(managers[t], requester)
          /\ managers' = [managers EXCEPT ![t].role[u] = "none"]
          /\ Spawn(Event(emitted + 1, "MANAGER_REMOVED", t, "", "", u))
    /\ UNCHANGED <<names, metaCache, fget, fupd, times, sreq, dbVars,
                   aclVars, teamCacheVars, emptyWrites, reqVars>>

(* ------------------------- team controller ---------------------------- *)

\* AddMember: Create(&teamMember) fails on an existing (team_id, user_id)
AddMember ==
    /\ emitted < MaxEvents
    /\ \E t \in Teams, u \in Users :
          /\ u \notin members[t]
          /\ members' = [members EXCEPT ![t] = @ \cup {u}]
          /\ memberHist' = [memberHist EXCEPT ![t] = @ \cup {members[t] \cup {u}}]
          /\ Spawn(Event(emitted + 1, "MEMBER_ADDED", t, "", "", u))
    /\ UNCHANGED <<metaVars, owner, shares, aclVars, teamCacheVars,
                   emptyWrites, reqVars>>

\* RemoveMember: Delete reports no error when no row matches, so the event is
\* emitted for a non-member too
RemoveMember ==
    /\ emitted < MaxEvents
    /\ \E t \in Teams, u \in Users :
          /\ members' = [members EXCEPT ![t] = @ \ {u}]
          /\ memberHist' = [memberHist EXCEPT ![t] = @ \cup {members[t] \ {u}}]
          /\ Spawn(Event(emitted + 1, "MEMBER_REMOVED", t, "", "", u))
    /\ UNCHANGED <<metaVars, owner, shares, aclVars, teamCacheVars,
                   emptyWrites, reqVars>>

\* ProduceTeamEvent: teamWriter.WriteMessages
ProduceTeamEvent ==
    /\ \E e \in spawned :
          /\ e.teamId # ""
          /\ teamTopic' = Append(teamTopic, e)
          /\ spawned' = spawned \ {e}
    /\ UNCHANGED <<metaVars, dbVars, aclVars, teamCacheVars, emptyWrites, assetTopic,
                   emitted, reqVars, consVars>>

\* a switch with no MEMBER_REMOVED case
TeamSetAfterAddOnly(set, eventType, target) ==
    IF eventType = "MEMBER_ADDED" THEN set \cup {target}
    ELSE set

\* a MEMBER_ADDED that adds the member when absent and removes it when present
TeamSetAfterToggle(set, eventType, target) ==
    IF eventType = "MEMBER_ADDED"
    THEN IF target \in set THEN set \ {target} ELSE set \cup {target}
    ELSE IF eventType = "MEMBER_REMOVED" THEN set \ {target}
    ELSE set

\* handleTeamEvent's switch: the member set after the event's command.
\* SADD creates the key when it does not exist; SREM of the last member
\* removes it
TeamSetAfter(set, eventType, target) ==
    IF eventType = "MEMBER_ADDED" THEN set \cup {target}
    ELSE IF eventType = "MEMBER_REMOVED" THEN set \ {target}
    ELSE set

\* consume + handleTeamEvent for the next message of team.activity
handleTeamEvent ==
    /\ teamTopic # <<>>
    /\ \E up \in BOOLEAN :
          LET e == Head(teamTopic)
              t == e.teamId
          IN  /\ teamTopic' = Tail(teamTopic)
              /\ IF up /\ t \in Teams
                 THEN /\ teamCache' = [teamCache EXCEPT ![t] =
                            TeamSetAfter(@, e.eventType, e.targetUserId)]
                      /\ teamTTL' = [teamTTL EXCEPT ![t] =
                            @ /\ teamCache[t] # {} /\ teamCache'[t] # {}]
                 ELSE UNCHANGED teamCacheVars
    /\ UNCHANGED <<metaVars, dbVars, aclVars, emptyWrites, spawned, assetTopic,
                   emitted, reqVars, consVars>>

\* GetTeamAssets: `if len(memberIDs) > 0` before the cache is populated
PopulateTeam(memberIDs) ==
    memberIDs # {}

\* a request for GetTeamAssets
TeamStart ==
    /\ treq.pc = "idle"
    /\ \E t \in Teams : treq' = [IdleTeamReq EXCEPT !.pc = "smembers", !.teamID = t]
    /\ UNCHANGED <<metaVars, dbVars, aclVars, teamCacheVars, emptyWrites, busVars, req,
                   lastCall, got>>

\* GetTeamAssets: SMembers; a hit needs err == nil and a member; each member
\* of a hit goes through `id, _ := uuid.Parse(idStr)`
TeamLookup ==
    /\ treq.pc = "smembers"
    /\ \E up \in BOOLEAN :
          treq' = IF up /\ teamCache[treq.teamID] # {}
                  THEN [treq EXCEPT
                          !.pc = "done", !.hit = TRUE,
                          !.memberIDs =
                              {Parse(idStr).id :
                                 idStr \in teamCache[treq.teamID]}]
                  ELSE [treq EXCEPT !.pc = "pluck"]
    /\ UNCHANGED <<metaVars, dbVars, aclVars, teamCacheVars, emptyWrites, busVars, req,
                   lastCall, got>>

\* GetTeamAssets: Pluck("user_id") of the team's members
TeamPluck ==
    /\ treq.pc = "pluck"
    /\ \E dbOk \in BOOLEAN :
          treq' = IF ~dbOk
                  THEN [treq EXCEPT !.pc = "done",
                                    !.err = StatusInternalServerError]
                  ELSE IF PopulateTeam(members[treq.teamID])
                  THEN [treq EXCEPT !.pc = "sadd",
                                    !.memberIDs = members[treq.teamID]]
                  ELSE [treq EXCEPT !.pc = "done",
                                    !.memberIDs = members[treq.teamID]]
    /\ UNCHANGED <<metaVars, dbVars, aclVars, teamCacheVars, emptyWrites, busVars, req,
                   lastCall, got>>

\* GetTeamAssets: database.Rdb.SAdd(ctx, cacheKey, stringIDs...)
TeamPopulate ==
    /\ treq.pc = "sadd"
    /\ \E up \in BOOLEAN :
          LET t == treq.teamID
          IN  /\ treq' = [treq EXCEPT !.pc = "expire"]
              /\ emptyWrites' = IF treq.memberIDs # {} THEN emptyWrites ELSE 1
              /\ IF up /\ treq.memberIDs # {}
                 THEN /\ teamCache' = [teamCache EXCEPT ![t] = @ \cup treq.memberIDs]
                      /\ teamTTL' = [teamTTL EXCEPT ![t] = @ /\ teamCache[t] # {}]
                 ELSE UNCHANGED teamCacheVars
    /\ UNCHANGED <<metaVars, dbVars, aclVars, busVars, req, lastCall, got>>

\* GetTeamAssets: database.Rdb.Expire(ctx, cacheKey, 24*time.Hour)
TeamExpire ==
    /\ treq.pc = "expire"
    /\ \E up \in BOOLEAN :
          LET t == treq.teamID
          IN  /\ treq' = [treq EXCEPT !.pc = "done"]
              /\ teamTTL' = [teamTTL EXCEPT ![t] =
                              IF up /\ teamCache[t] # {} THEN TRUE ELSE @]
    /\ UNCHANGED <<metaVars, dbVars, aclVars, teamCache, emptyWrites, busVars, req,
                   lastCall, got>>

\* the assets of treq.memberIDs are answered
TeamFinish ==
    /\ treq.pc = "done"
    /\ treq' = IdleTeamReq
    /\ UNCHANGED <<metaVars, dbVars, aclVars, teamCacheVars, emptyWrites, busVars, req,
                   lastCall, got>>

\* the expiry of the members key passes
ExpireTeamKey ==
    /\ \E t \in Teams :
          /\ teamTTL[t]
          /\ teamCache' = [teamCache EXCEPT ![t] = {}]
          /\ teamTTL' = [teamTTL EXCEPT ![t] = FALSE]
    /\ UNCHANGED <<metaVars, dbVars, aclVars, emptyWrites, busVars, reqVars>>

(* ----------------- cache adapters (seta-service-clean) ----------------- *)

\* the adapter call that is made: its name, its key, whether its value
\* argument has no element
Call(op, key, empty) ==
    [op |-> op, key |-> key, empty |-> empty, tick |-> ~lastCall.tick]

\* SetTeamMembers without the guard
SetTeamMembersAlways(memberIDs) ==
    TRUE

\* SetTeamMembers: `if len(memberIDs) == 0 { return nil }`
SetTeamMembersWrites(memberIDs) ==
    Cardinality(memberIDs) # 0

\* SetTeamMembers: the guard, then SAdd and Expire in one pipeline
SetTeamMembers ==
    /\ \E t \in Teams, memberIDs \in SUBSET Users, up \in BOOLEAN :
          /\ lastCall' = Call("SetTeamMembers", t, memberIDs = {})
          /\ IF SetTeamMembersWrites(memberIDs)
             THEN /\ emptyWrites' = IF memberIDs = {} THEN 1 ELSE emptyWrites
                  /\ IF up
                     THEN /\ teamCache' = [teamCache EXCEPT ![t] = @ \cup memberIDs]
                          /\ teamTTL' = [teamTTL EXCEPT ![t] = teamCache'[t] # {}]
                     ELSE UNCHANGED teamCacheVars
             ELSE UNCHANGED <<teamCacheVars, emptyWrites>>
    /\ UNCHANGED <<metaVars, dbVars, aclVars, busVars, req, treq, got>>

\* GetTeamMembers: SMembers; an error and an empty reply are returned as errors
GetTeamMembers ==
    /\ \E t \in Teams, up \in BOOLEAN :
          /\ lastCall' = Call("GetTeamMembers", t, FALSE)
          /\ got' = IF ~up \/ Cardinality(teamCache[t]) = 0
                    THEN [miss |-> TRUE, n |-> 0]
                    ELSE [miss |-> FALSE, n |-> Cardinality(teamCache[t])]
    /\ UNCHANGED <<metaVars, dbVars, aclVars, teamCacheVars, emptyWrites, busVars, req,
                   treq>>

\* InvalidateTeamMembers: Del
InvalidateTeamMembers ==
    /\ \E t \in Teams, up \in BOOLEAN :
          /\ lastCall' = Call("InvalidateTeamMembers", t, FALSE)
          /\ IF up
             THEN /\ teamCache' = [teamCache EXCEPT ![t] = {}]
                  /\ teamTTL' = [teamTTL EXCEPT ![t] = FALSE]
             ELSE UNCHANGED teamCacheVars
    /\ UNCHANGED <<metaVars, dbVars, aclVars, emptyWrites, busVars, req, treq, got>>

\* SetACL: `if len(acl) == 0 { return nil }`
SetACLWrites(acl) ==
    Cardinality({u \in Users : acl[u] # Absent}) # 0

\* SetACL: the guard, then HSet and Expire in one pipeline
SetACL ==
    /\ \E a \in Assets, acl \in [Users -> Levels \cup {Absent}], up \in BOOLEAN :
          /\ lastCall' = Call("SetACL", a, ~KeyExists(acl))
          /\ IF SetACLWrites(acl)
             THEN /\ emptyWrites' = IF KeyExists(acl) THEN emptyWrites ELSE 1
                  /\ IF up
                     THEN /\ aclCache' = [aclCache EXCEPT ![a] = HSet(@, acl)]
                          /\ aclTTL' = [aclTTL EXCEPT ![a] = KeyExists(aclCache'[a])]
                     ELSE UNCHANGED aclVars
             ELSE UNCHANGED <<aclVars, emptyWrites>>
    /\ UNCHANGED <<metaVars, dbVars, teamCacheVars, busVars, req, treq, got>>

\* GetACL: HGetAll; an error and an empty reply are returned as errors
GetACL ==
    /\ \E a \in Assets, up \in BOOLEAN :
          /\ lastCall' = Call("GetACL", a, FALSE)
          /\ got' = IF ~up \/ ~KeyExists(aclCache[a])
                    THEN [miss |-> TRUE, n |-> 0]
                    ELSE [miss |-> FALSE,
                          n |-> Cardinality({u \in Users : aclCache[a][u] # Absent})]
    /\ UNCHANGED <<metaVars, dbVars, aclVars, teamCacheVars, emptyWrites, busVars, req,
                   treq>>

\* InvalidateACL: Del
InvalidateACL ==
    /\ \E a \in Assets, up \in BOOLEAN :
          /\ lastCall' = Call("InvalidateACL", a, FALSE)
          /\ IF up
             THEN /\ aclCache' = [aclCache EXCEPT ![a] = NoFields]
                  /\ aclTTL' = [aclTTL EXCEPT ![a] = FALSE]
             ELSE UNCHANGED aclVars
    /\ UNCHANGED <<metaVars, dbVars, teamCacheVars, emptyWrites, busVars, req, treq, got>>

(* ------------------------- consumer loops ----------------------------- *)

\* the topics the cache updater subscribes to
Topics ==
    {"team.activity", "asset.changes"}

\* the partitions of a topic
Partitions ==
    {0, 1}

NoMsg ==
    [id |-> 0, key |-> "", value |-> Malformed]

\* the values written to a topic: the events of the service, payloads that
\* lack the asset type or the asset identifier (both are `omitempty`), and
\* bytes that are not an EventPayload
ValuesOf(topic) ==
    IF topic = "team.activity"
    THEN {Marshal(Event(0, ty, "t1", "", "", "u2")) :
             ty \in {"MEMBER_ADDED", "MEMBER_REMOVED", "TEAM_CREATED",
                     "MANAGER_REMOVED"}}
         \cup {Malformed}
    ELSE {Marshal(Event(0, ty, "", "folder", "f1", "u2")) :
             ty \in {"FOLDER_SHARED", "FOLDER_UNSHARED", "FOLDER_UPDATED"}}
         \cup {Marshal(Event(0, "FOLDER_UPDATED", "", "", "f1", "")),
               Marshal(Event(0, "FOLDER_UPDATED", "", "folder", "", ""))}
         \cup {Malformed}

\* Key: []byte(payload.TeamID) / []byte(payload.AssetID)
KeyOf(topic) ==
    IF topic = "team.activity" THEN "t1" ELSE "f1"

\* Balancer: &kafka.LeastBytes{}: the partition that was sent the least, the
\* first of them when several were; the key takes no part. Every message
\* counts the same here.
LeastBytes(counters) ==
    CHOOSE part \in Partitions :
        \A q \in Partitions :
            \/ counters[part] < counters[q]
            \/ (counters[part] = counters[q] /\ part <= q)

\* the variables no consumer step changes
serviceVars ==
    <<dbVars, emptyWrites, spawned, assetTopic, teamTopic, reqVars>>

\* the topic has been written to
Written(topic) ==
    \E part \in Partitions : writer[topic][part] > 0

\* Writer.WriteMessages: the message goes to the partition the balancer picks.
\* A run writes to one of the topics only.
WriteMessages ==
    /\ emitted < MaxEvents
    /\ \E topic \in Topics : \E value \in ValuesOf(topic) :
          LET part == LeastBytes(writer[topic])
              m == [id |-> emitted + 1, key |-> KeyOf(topic), value |-> value]
          IN  /\ \A other \in Topics \ {topic} : ~Written(other)
              /\ parts' = [parts EXCEPT ![topic][part] = Append(@, m)]
              /\ writer' = [writer EXCEPT ![topic][part] = @ + 1]
    /\ emitted' = emitted + 1
    /\ UNCHANGED <<metaVars, serviceVars, aclVars, teamCacheVars, kind, cancelled,
                   loop, clog>>

\* at-least-once delivery: a message is in the log twice (once per run)
Redeliver ==
    /\ \E topic \in Topics, part \in Partitions :
          /\ ~clog[topic].redelivered
          /\ parts[topic][part] # <<>>
          /\ parts' = [parts EXCEPT ![topic][part] = <<Head(@)>> \o @]
          /\ clog' = [clog EXCEPT ![topic].redelivered = TRUE]
    /\ UNCHANGED <<metaVars, serviceVars, aclVars, teamCacheVars, emitted, kind,
                   cancelled, writer, loop>>

\* the context given to Start is cancelled
Cancel ==
    /\ ~cancelled
    /\ cancelled' = TRUE
    /\ UNCHANGED <<metaVars, serviceVars, aclVars, teamCacheVars, emitted, kind,
                   writer, parts, loop, clog>>

\* consume: kafka.NewReader and the log line; Start: the log line
LoopStart(topic) ==
    /\ loop[topic].pc = "starting"
    /\ loop' = [loop EXCEPT ![topic].pc = "top"]
    /\ UNCHANGED <<metaVars, serviceVars, aclVars, teamCacheVars, emitted, kind,
                   cancelled, writer, parts, clog>>

\* the top of an iteration. Start: `select { case <-ctx.Done(): ... default:`;
\* consume: `for {` with no test at all
ObservesCancel(k, c) ==
    k = "Start" /\ c

LoopTop(topic) ==
    /\ loop[topic].pc = "top"
    /\ loop' = [loop EXCEPT ![topic].pc =
                  IF ObservesCancel(kind, cancelled) THEN "draining"
                  ELSE "receive"]
    /\ UNCHANGED <<metaVars, serviceVars, aclVars, teamCacheVars, emitted, kind,
                   cancelled, writer, parts, clog>>

\* a loop that starts the handler with `go handler(m)` and reads on: the next
\* message is received while the handler of the previous one is running
ReadMessageFanOut(topic) ==
    /\ loop[topic].pc \in {"receive", "handle"}
    /\ \/ \E part \in Partitions :
             /\ parts[topic][part] # <<>>
             /\ parts' = [parts EXCEPT ![topic][part] = Tail(@)]
             /\ loop' = [loop EXCEPT ![topic] =
                           [pc |-> "handle", msg |-> Head(parts[topic][part])]]
             /\ clog' = [clog EXCEPT ![topic].order =
                           Append(@, Head(parts[topic][part]).id)]
       \/ /\ loop[topic].pc = "receive"
          /\ loop' = [loop EXCEPT ![topic].pc = "top"]
          /\ UNCHANGED <<parts, clog>>
    /\ UNCHANGED <<metaVars, serviceVars, aclVars, teamCacheVars, emitted, kind,
                   cancelled, writer>>

\* reader.ReadMessage: the next message of one of the partitions, whose
\* offset the reader of a consumer group commits as it returns it; or an
\* error, after which the loop continues
ReadMessage(topic) ==
    /\ loop[topic].pc = "receive"
    /\ \/ \E part \in Partitions :
             /\ parts[topic][part] # <<>>
             /\ parts' = [parts EXCEPT ![topic][part] = Tail(@)]
             /\ loop' = [loop EXCEPT ![topic] =
                           [pc |-> "handle", msg |-> Head(parts[topic][part])]]
             /\ clog' = [clog EXCEPT ![topic].order =
                           Append(@, Head(parts[topic][part]).id)]
       \/ /\ loop' = [loop EXCEPT ![topic].pc = "top"]
          /\ UNCHANGED <<parts, clog>>
    /\ UNCHANGED <<metaVars, serviceVars, aclVars, teamCacheVars, emitted, kind,
                   cancelled, writer>>

\* Start: reader.Close() and return
ReaderClose(topic) ==
    /\ loop[topic].pc = "draining"
    /\ loop' = [loop EXCEPT ![topic] = [pc |-> "stopped", msg |-> NoMsg]]
    /\ UNCHANGED <<metaVars, serviceVars, aclVars, teamCacheVars, emitted, kind,
                   cancelled, writer, parts, clog>>

\* json.Unmarshal(m.Value, &payload)
Unmarshal(value) ==
    IF value.json
    THEN [err |-> FALSE, payload |-> value.payload]
    ELSE [err |-> TRUE, payload |-> Event(0, "", "", "", "", "")]

\* a handler that ends the process on a message it cannot decode
OnDecodeErrorFatal ==
    "stopped"

\* `if err := json.Unmarshal(...); err != nil { log; return }`: the handler
\* returns to the loop
OnDecodeError ==
    "top"

\* a handler that deletes the target user's field of the hash only
InvalidateField(hash, target) ==
    [hash EXCEPT ![target] = Absent]

\* rdb.Del(ctx, aclKey): the whole key goes, whoever the event's target is
InvalidateKey(hash, target) ==
    NoFields

\* a team handler that, on a membership change, also deletes the ACL keys
HandleTeamEventAndACL ==
    LET topic == "team.activity"
        m == loop[topic].msg
        d == Unmarshal(m.value)
        t == d.payload.teamId
    IN  /\ loop[topic].pc = "handle"
        /\ \E up \in BOOLEAN :
              LET sends == ~d.err /\ t \in Teams
                           /\ d.payload.eventType \in
                                {"MEMBER_ADDED", "MEMBER_REMOVED"}
                  done == ~sends \/ up
              IN  /\ IF sends /\ up
                     THEN /\ teamCache' = [teamCache EXCEPT ![t] =
                                TeamSetAfter(@, d.payload.eventType,
                                             d.payload.targetUserId)]
                          /\ teamTTL' = [teamTTL EXCEPT ![t] =
                                @ /\ teamCache[t] # {} /\ teamCache'[t] # {}]
                     ELSE UNCHANGED teamCacheVars
                  /\ IF sends /\ up
                     THEN /\ aclCache' = [a \in Assets |-> NoFields]
                          /\ aclTTL' = [a \in Assets |-> FALSE]
                     ELSE UNCHANGED aclVars
                  /\ loop' = [loop EXCEPT ![topic] =
                                [pc |-> IF d.err THEN OnDecodeError ELSE "top",
                                 msg |-> NoMsg]]
                  /\ clog' = [clog EXCEPT
                                ![topic].applied =
                                    IF done THEN @ \cup {m.id} ELSE @,
                                ![topic].lost =
                                    IF done THEN @ ELSE @ \cup {m.id},
                                ![topic].skipped =
                                    IF d.err THEN @ \cup {m.id} ELSE @,
                                ![topic].last =
                                    Dispatched(m, done,
                                               <<teamCache, teamTTL>>,
                                               <<teamCache', teamTTL'>>)]
        /\ UNCHANGED <<metaVars, serviceVars, emitted, kind, cancelled,
                       writer, parts>>

\* handleTeamEvent / HandleTeamEvent for the message the loop received
HandleTeamEvent ==
    LET topic == "team.activity"
        m == loop[topic].msg
        d == Unmarshal(m.value)
        t == d.payload.teamId
    IN  /\ loop[topic].pc = "handle"
        /\ \E up \in BOOLEAN :
              LET sends == ~d.err /\ t \in Teams
                           /\ d.payload.eventType \in
                                {"MEMBER_ADDED", "MEMBER_REMOVED"}
                  done == ~sends \/ up
              IN  /\ IF sends /\ up
                     THEN /\ teamCache' = [teamCache EXCEPT ![t] =
                                TeamSetAfter(@, d.payload.eventType,
                                             d.payload.targetUserId)]
                          /\ teamTTL' = [teamTTL EXCEPT ![t] =
                                @ /\ teamCache[t] # {} /\ teamCache'[t] # {}]
                     ELSE UNCHANGED teamCacheVars
                  /\ loop' = [loop EXCEPT ![topic] =
                                [pc |-> IF d.err THEN OnDecodeError ELSE "top",
                                 msg |-> NoMsg]]
                  /\ clog' = [clog EXCEPT
                                ![topic].applied =
                                    IF done THEN @ \cup {m.id} ELSE @,
                                ![topic].lost =
                                    IF done THEN @ ELSE @ \cup {m.id},
                                ![topic].skipped =
                                    IF d.err THEN @ \cup {m.id} ELSE @,
                                ![topic].last =
                                    Dispatched(m, done,
                                               <<teamCache, teamTTL>>,
                                               <<teamCache', teamTTL'>>)]
        /\ UNCHANGED <<metaVars, serviceVars, aclVars, emitted, kind, cancelled,
                       writer, parts>>

\* handleAssetEvent / HandleAssetEvent for the message the loop received
HandleAssetEvent ==
    LET topic == "asset.changes"
        m == loop[topic].msg
        d == Unmarshal(m.value)
        a == d.payload.assetId
    IN  /\ loop[topic].pc = "handle"
        /\ \E upMeta \in BOOLEAN, up \in BOOLEAN :
              LET sendsMeta == ~d.err
                               /\ InvalidatesAsset(d.payload.assetType, a)
                  sends == ~d.err /\ a \in Assets
                           /\ InvalidatesACL(d.payload.eventType)
                  done == (~sendsMeta \/ upMeta) /\ (~sends \/ up)
              IN  /\ metaCache' = IF sendsMeta /\ upMeta
                                  THEN Del(metaCache,
                                           MetaKey(d.payload.assetType, a))
                                  ELSE metaCache
                  /\ IF sends /\ up
                     THEN /\ aclCache' = [aclCache EXCEPT ![a] =
                                InvalidateKey(@, d.payload.targetUserId)]
                          /\ aclTTL' = [aclTTL EXCEPT ![a] =
                                @ /\ KeyExists(aclCache'[a])]
                     ELSE UNCHANGED aclVars
                  /\ loop' = [loop EXCEPT ![topic] =
                                [pc |-> IF d.err THEN OnDecodeError ELSE "top",
                                 msg |-> NoMsg]]
                  /\ clog' = [clog EXCEPT
                                ![topic].applied =
                                    IF done THEN @ \cup {m.id} ELSE @,
                                ![topic].lost =
                                    IF done THEN @ ELSE @ \cup {m.id},
                                ![topic].skipped =
                                    IF d.err THEN @ \cup {m.id} ELSE @,
                                ![topic].sent =
                                    IF sendsMeta
                                    THEN {MetaKey(d.payload.assetType, a)}
                                    ELSE {},
                                ![topic].last =
                                    Dispatched(m, done,
                                               <<aclCache, aclTTL, metaCache>>,
                                               <<aclCache', aclTTL',
                                                 metaCache'>>)]
        /\ UNCHANGED <<times, sreq, managers, names, fget, fupd, serviceVars, teamCacheVars,
                       emitted, kind, cancelled, writer, parts>>

NoLog ==
    [order |-> <<>>, applied |-> {}, lost |-> {}, skipped |-> {},
     redelivered |-> FALSE, sent |-> {},
     last |-> [value |-> Malformed, done |-> FALSE, before |-> <<>>,
               store |-> <<>>]]

(* --------------------------- environment ------------------------------ *)

\* the expiry set by Expire passes
ExpireACLKey ==
    /\ \E a \in Assets :
          /\ aclTTL[a]
          /\ aclCache' = [aclCache EXCEPT ![a] = NoFields]
          /\ aclTTL' = [aclTTL EXCEPT ![a] = FALSE]
    /\ UNCHANGED <<metaVars, dbVars, teamCacheVars, emptyWrites, busVars,
                   reqVars>>

(* ------------------------- specification ------------------------------ *)

\* the writers have sent nothing, the topics are empty, the loops start
ConsumersInit ==
    /\ cancelled = FALSE
    /\ writer = [topic \in Topics |-> [part \in Partitions |-> 0]]
    /\ parts = [topic \in Topics |-> [part \in Partitions |-> <<>>]]
    /\ loop = [topic \in Topics |-> [pc |-> "starting", msg |-> NoMsg]]
    /\ clog = [topic \in Topics |-> NoLog]

\* a running system: the folder exists, shared or not with the other users;
\* the cache store was just started
Init ==
    /\ owner = [a \in Assets |-> CreatorOf(a)]
    /\ shares \in [Assets -> {f \in [Users -> Levels \cup {Absent}] :
                                \A a \in Assets : f[CreatorOf(a)] = Absent}]
    /\ members = [t \in Teams |-> {"u1"}]
    /\ memberHist = [t \in Teams |-> {members[t]}]
    /\ aclCache = [a \in Assets |-> NoFields]
    /\ aclTTL = [a \in Assets |-> FALSE]
    /\ teamCache = [t \in Teams |-> {}]
    /\ teamTTL = [t \in Teams |-> FALSE]
    /\ emptyWrites = 0
    /\ spawned = {}
    /\ assetTopic = <<>>
    /\ teamTopic = <<>>
    /\ emitted = 0
    /\ req = [p \in Procs |-> IdleReq]
    /\ treq = IdleTeamReq
    /\ lastCall = NoCall
    /\ got = NoResult
    /\ kind = "consume"
    /\ ConsumersInit
    /\ names = [a \in Assets |-> "n1"]
    /\ metaCache = [k \in MetaKeys |-> Nil]
    /\ fget = IdleFolderReq
    /\ fupd = IdleFolderReq
    /\ times = NoTimes
    /\ sreq = NoShareReq
    /\ managers = [t \in Teams |-> LedBy("u1")]

Next ==
    \/ \E p \in Procs : Start(p)
    \/ \E p \in Procs : OwnerCheck(p)
    \/ \E p \in Procs : CacheLookup(p)
    \/ \E p \in Procs : Fetch(p)
    \/ \E p \in Procs : Populate(p)
    \/ \E p \in Procs : ExpireAndReturn(p)
    \/ \E p \in Procs : Finish(p)
    \/ ShareFolder
    \/ RevokeFolderSharing
    \/ DeleteFolder
    \/ ProduceAssetEvent
    \/ handleAssetEvent
    \/ ExpireACLKey

Spec ==
    Init /\ [][Next]_vars

\* the folder snapshots: cache-aside GetFolder, write-through UpdateFolder,
\* DeleteFolder, the bus and the consumer's invalidation
NextFolder ==
    \/ GetFolderLookup
    \/ GetFolderFirst
    \/ GetFolderPopulate
    \/ GetFolderFinish
    \/ UpdateFolderCommit
    \/ UpdateFolderSet
    \/ DeleteFolder
    \/ ProduceAssetEvent
    \/ handleAssetEvent
    \/ ExpireMetaKey

SpecFolder ==
    Init /\ [][NextFolder]_vars

\* the readers over a store that holds what earlier writers left: the text
\* handleTeamEvent added as it came in the event, a snapshot written with
\* another type
InitStored ==
    /\ owner = [a \in Assets |-> CreatorOf(a)]
    /\ shares = [a \in Assets |-> NoFields]
    /\ members = [t \in Teams |-> {"u1"}]
    /\ memberHist = [t \in Teams |-> {members[t]}]
    /\ aclCache = [a \in Assets |-> NoFields]
    /\ aclTTL = [a \in Assets |-> FALSE]
    /\ teamCache \in [Teams -> {{}, {"u1"}, {"u1", Garbled}}]
    /\ teamTTL = [t \in Teams |-> teamCache[t] # {}]
    /\ emptyWrites = 0
    /\ spawned = {}
    /\ assetTopic = <<>>
    /\ teamTopic = <<>>
    /\ emitted = 0
    /\ req = [p \in Procs |-> IdleReq]
    /\ treq = IdleTeamReq
    /\ lastCall = NoCall
    /\ got = NoResult
    /\ kind = "consume"
    /\ ConsumersInit
    /\ names = [a \in Assets |-> "n1"]
    /\ metaCache \in [MetaKeys -> {Nil, Marshal(Folder("f1", "n1", "u1")),
                                   Undecodable}]
    /\ fget = IdleFolderReq
    /\ fupd = IdleFolderReq
    /\ times = NoTimes
    /\ sreq = NoShareReq
    /\ managers = [t \in Teams |-> LedBy("u1")]

NextStored ==
    \/ GetFolderLookup
    \/ GetFolderFirst
    \/ GetFolderPopulate
    \/ GetFolderFinish
    \/ TeamStart
    \/ TeamLookup
    \/ TeamPluck
    \/ TeamPopulate
    \/ TeamExpire
    \/ TeamFinish

SpecStored ==
    InitStored /\ [][NextStored]_vars

\* the folder sharing use cases of seta-service-clean, with the bus and the
\* cache updater
NextShare ==
    \/ ShareFolderExecute
    \/ UnshareFolderExecute
    \/ ProduceAssetEvent
    \/ handleAssetEvent

SpecShare ==
    Init /\ [][NextShare]_vars

\* the team use cases of seta-service-clean, with the bus and the cache
\* updater; no team exists yet
InitManagers ==
    /\ owner = [a \in Assets |-> CreatorOf(a)]
    /\ shares = [a \in Assets |-> NoFields]
    /\ members = [t \in Teams |-> {}]
    /\ memberHist = [t \in Teams |-> {members[t]}]
    /\ aclCache = [a \in Assets |-> NoFields]
    /\ aclTTL = [a \in Assets |-> FALSE]
    /\ teamCache = [t \in Teams |-> {}]
    /\ teamTTL = [t \in Teams |-> FALSE]
    /\ emptyWrites = 0
    /\ spawned = {}
    /\ assetTopic = <<>>
    /\ teamTopic = <<>>
    /\ emitted = 0
    /\ req = [p \in Procs |-> IdleReq]
    /\ treq = IdleTeamReq
    /\ lastCall = NoCall
    /\ got = NoResult
    /\ kind = "consume"
    /\ ConsumersInit
    /\ names = [a \in Assets |-> "n1"]
    /\ metaCache = [k \in MetaKeys |-> Nil]
    /\ fget = IdleFolderReq
    /\ fupd = IdleFolderReq
    /\ times = NoTimes
    /\ sreq = NoShareReq
    /\ managers = [t \in Teams |-> NoTeam]

NextManagers ==
    \/ CreateTeamExecute
    \/ AddManagerExecute
    \/ RemoveManagerExecute
    \/ ProduceTeamEvent
    \/ handleTeamEvent

SpecManagers ==
    InitManagers /\ [][NextManagers]_vars

\* a user who owns folders and makes no request here
OtherOwner ==
    "u0"

\* the clock advances by one tick; a key whose deadline is reached is gone
Tick ==
    /\ times.now < MaxNow
    /\ LET due == {a \in Assets :
                     aclTTL[a] /\ times.deadline[a] = times.now + 1}
       IN  /\ aclCache' = [a \in Assets |->
                             IF a \in due THEN NoFields ELSE aclCache[a]]
           /\ aclTTL' = [a \in Assets |-> aclTTL[a] /\ a \notin due]
           /\ times' = [now |-> times.now + 1,
                        born |-> [a \in Assets |->
                                    IF a \in due THEN NoTimes.born[a]
                                    ELSE times.born[a]],
                        deadline |-> [a \in Assets |->
                                        IF a \in due THEN NoTimes.deadline[a]
                                        ELSE times.deadline[a]]]
    /\ UNCHANGED <<sreq, managers, names, metaCache, fget, fupd, dbVars, teamCacheVars,
                   emptyWrites, busVars, reqVars>>

\* the resolver over time: the folder of another user, shared or not with
\* the users who ask; the cache store was just started. The events of the
\* controllers stay with their publishers here; their delivery is in Spec.
InitTTL ==
    /\ owner = [a \in Assets |-> OtherOwner]
    /\ shares \in [Assets -> [Users -> Levels \cup {Absent}]]
    /\ members = [t \in Teams |-> {"u1"}]
    /\ memberHist = [t \in Teams |-> {members[t]}]
    /\ aclCache = [a \in Assets |-> NoFields]
    /\ aclTTL = [a \in Assets |-> FALSE]
    /\ teamCache = [t \in Teams |-> {}]
    /\ teamTTL = [t \in Teams |-> FALSE]
    /\ emptyWrites = 0
    /\ spawned = {}
    /\ assetTopic = <<>>
    /\ teamTopic = <<>>
    /\ emitted = 0
    /\ req = [p \in Procs |-> IdleReq]
    /\ treq = IdleTeamReq
    /\ lastCall = NoCall
    /\ got = NoResult
    /\ kind = "consume"
    /\ ConsumersInit
    /\ names = [a \in Assets |-> "n1"]
    /\ metaCache = [k \in MetaKeys |-> Nil]
    /\ fget = IdleFolderReq
    /\ fupd = IdleFolderReq
    /\ times = NoTimes
    /\ sreq = NoShareReq
    /\ managers = [t \in Teams |-> LedBy("u1")]

NextTTL ==
    \/ \E p \in Procs : Start(p)
    \/ \E p \in Procs : OwnerCheck(p)
    \/ \E p \in Procs : CacheLookup(p)
    \/ \E p \in Procs : Fetch(p)
    \/ \E p \in Procs : Populate(p)
    \/ \E p \in Procs : ExpireAndReturn(p)
    \/ \E p \in Procs : Finish(p)
    \/ ShareFolder
    \/ RevokeFolderSharing
    \/ Tick

SpecTTL ==
    InitTTL /\ [][NextTTL]_vars

\* the team-membership side: controller, bus, consumer and GetTeamAssets
NextTeam ==
    \/ AddMember
    \/ RemoveMember
    \/ ProduceTeamEvent
    \/ handleTeamEvent
    \/ TeamStart
    \/ TeamLookup
    \/ TeamPluck
    \/ TeamPopulate
    \/ TeamExpire
    \/ TeamFinish
    \/ ExpireTeamKey

SpecTeam ==
    Init /\ [][NextTeam]_vars

\* the cache adapters of seta-service-clean, called with every argument
NextAdapters ==
    \/ SetTeamMembers
    \/ GetTeamMembers
    \/ InvalidateTeamMembers
    \/ SetACL
    \/ GetACL
    \/ InvalidateACL
    \/ ExpireACLKey
    \/ ExpireTeamKey

SpecAdapters ==
    Init /\ [][NextAdapters]_vars

\* the cache updater: either binary's loops, started over a store that is
\* empty or that earlier populations have filled
InitConsumer ==
    /\ owner = [a \in Assets |-> CreatorOf(a)]
    /\ shares = [a \in Assets |-> NoFields]
    /\ members = [t \in Teams |-> {"u1"}]
    /\ memberHist = [t \in Teams |-> {members[t]}]
    /\ \E filled \in BOOLEAN :
          /\ aclCache = [a \in Assets |->
                           IF filled THEN [u \in Users |-> "read"]
                           ELSE NoFields]
          /\ teamCache = [t \in Teams |-> IF filled THEN Users ELSE {}]
          /\ metaCache = [k \in MetaKeys |->
                            IF filled THEN Marshal(Folder("f1", "n1", "u1"))
                            ELSE Nil]
    /\ aclTTL = [a \in Assets |-> KeyExists(aclCache[a])]
    /\ teamTTL = [t \in Teams |-> teamCache[t] # {}]
    /\ emptyWrites = 0
    /\ spawned = {}
    /\ assetTopic = <<>>
    /\ teamTopic = <<>>
    /\ emitted = 0
    /\ req = [p \in Procs |-> IdleReq]
    /\ treq = IdleTeamReq
    /\ lastCall = NoCall
    /\ got = NoResult
    /\ kind \in {"consume", "Start"}
    /\ ConsumersInit
    /\ names = [a \in Assets |-> "n1"]
    /\ fget = IdleFolderReq
    /\ fupd = IdleFolderReq
    /\ times = NoTimes
    /\ sreq = NoShareReq
    /\ managers = [t \in Teams |-> LedBy("u1")]

LoopStep(topic) ==
    \/ LoopStart(topic)
    \/ LoopTop(topic)
    \/ ReadMessage(topic)
    \/ ReaderClose(topic)

NextConsumer ==
    \/ WriteMessages
    \/ Redeliver
    \/ Cancel
    \/ \E topic \in Topics : LoopStart(topic)
    \/ \E topic \in Topics : LoopTop(topic)
    \/ \E topic \in Topics : ReadMessage(topic)
    \/ \E topic \in Topics : ReaderClose(topic)
    \/ HandleTeamEvent
    \/ HandleAssetEvent

SpecConsumer ==
    InitConsumer /\ [][NextConsumer]_vars

\* each loop is a goroutine that keeps running
SpecConsumerFair ==
    /\ SpecConsumer
    /\ \A topic \in Topics : WF_vars(LoopStep(topic))
    /\ WF_vars(HandleTeamEvent)
    /\ WF_vars(HandleAssetEvent)

(* ---------------------------- properties ------------------------------ *)

NonOwnerDone(p) ==
    /\ req[p].pc = "done"
    /\ req[p].err = ErrNil
    /\ req[p].dbOwner \notin {NoOwner, req[p].userID}

\* C1: canRead/canWrite never answers allow to a non-owner on the strength of
\* a share the system of record has already revoked: a non-owner is allowed
\* only if the share row existed at some instant of the call.
C1_NoGrantOnRevokedShare ==
    \A p \in Procs :
        (NonOwnerDone(p) /\ req[p].ok) => req[p].live

\* C2: whatever the consumer's invalidation does meanwhile, a call that
\* rebuilds the ACL never answers a write grant when the user's share row was
\* gone by the time its rebuild query ran.
C2_RebuildNeverGrantsRemovedShare ==
    \A p \in Procs :
        (/\ req[p].pc = "done"
         /\ req[p].queried
         /\ req[p].op = "write"
         /\ req[p].dbOwner # req[p].userID
         /\ req[p].qShare = Absent)
        => ~req[p].ok

\* a share that existed when the call began is removed before the rebuild
\* query of a CanWriteAsset call, which denies
C2_Witness ==
    \E p \in Procs :
        /\ req[p].pc = "done"
        /\ req[p].queried
        /\ req[p].op = "write"
        /\ req[p].live
        /\ req[p].qShare = Absent
        /\ ~req[p].ok
        /\ req[p].err = ErrNil

\* C3: when the user is the owner in the system of record, CanAccessAsset and
\* CanWriteAsset answer true whatever the ACL cache holds.
C3_OwnerAlwaysPasses ==
    \A p \in Procs :
        (/\ req[p].pc = "done"
         /\ ~req[p].dbFail
         /\ owner[req[p].assetID] = req[p].userID)
        => (req[p].ok /\ req[p].err = ErrNil)

\* the owner passes CanWriteAsset while the cached ACL gives the owner "read"
C3_Witness ==
    \E p \in Procs :
        /\ req[p].pc = "done"
        /\ req[p].op = "write"
        /\ owner[req[p].assetID] = req[p].userID
        /\ aclCache[req[p].assetID][req[p].userID] = "read"
        /\ req[p].ok

\* C4: a failure of the system of record during the ownership check or the
\* ACL rebuild is answered as an error (500): not allow, and not the denied
\* answer (false, nil).
C4_DbFailureIsError ==
    \A p \in Procs :
        (req[p].pc = "done" /\ req[p].dbFail)
        => (~req[p].ok /\ req[p].err = StatusInternalServerError)

\* the share query of a rebuild fails
C4_Witness ==
    \E p \in Procs :
        /\ req[p].pc = "done"
        /\ req[p].dbFail
        /\ req[p].queried
        /\ req[p].err = StatusInternalServerError

\* C5: when the asset has no row in the system of record, the call answers
\* not-found (404), which the middleware passes on as 404; the denied answer
\* (false, nil) is a different one, and 404 is answered for no other reason.
C5_NotFoundIsDistinct ==
    \A p \in Procs :
        req[p].pc = "done" =>
            /\ (~req[p].dbFail /\ req[p].dbOwner = NoOwner)
               => (/\ ~req[p].ok
                   /\ req[p].err = StatusNotFound
                   /\ req[p].http = "abort404")
            /\ req[p].err = StatusNotFound
               => (~req[p].dbFail /\ req[p].dbOwner = NoOwner)

\* a call for a deleted folder whose ACL is still cached answers 404
C5_Witness ==
    \E p \in Procs :
        /\ req[p].pc = "done"
        /\ req[p].err = StatusNotFound
        /\ req[p].http = "abort404"
        /\ owner[req[p].assetID] = NoOwner
        /\ KeyExists(aclCache[req[p].assetID])

\* the decision taken on the system of record alone
DirectDecision(op, userID, ownerRow, shareRow) ==
    IF ownerRow = NoOwner THEN <<FALSE, StatusNotFound>>
    ELSE IF ownerRow = userID THEN <<TRUE, ErrNil>>
    ELSE IF op = "read" THEN <<shareRow \in {"read", "write"}, ErrNil>>
    ELSE <<shareRow = "write", ErrNil>>

\* C6: when every cache command of a call fails, the call answers what the
\* ownership row and the share row of the system of record decide, the share
\* row being queried for every non-owner; no cache error is answered.
C6_CacheDownEqualsDirect ==
    \A p \in Procs :
        (req[p].pc = "done" /\ ~req[p].anyUp /\ ~req[p].dbFail)
        => /\ <<req[p].ok, req[p].err>> =
                 DirectDecision(req[p].op, req[p].userID, req[p].dbOwner,
                                req[p].qShare)
           /\ req[p].dbOwner \notin {NoOwner, req[p].userID}
                 => (req[p].queried /\ ~req[p].hit)

\* a non-owner is allowed from the share row while HGet, HSet and Expire fail
C6_Witness ==
    \E p \in Procs :
        /\ req[p].pc = "done"
        /\ ~req[p].anyUp
        /\ req[p].anyDown
        /\ req[p].queried
        /\ req[p].qShare = "write"
        /\ req[p].ok

\* C7: for a non-owner, CanAccessAsset answers true exactly for the levels
\* read and write, CanWriteAsset exactly for write; no level is denied by both.
C7_VerdictMatchesLevel ==
    \A p \in Procs :
        NonOwnerDone(p) =>
            /\ req[p].op = "read"
               => (req[p].ok <=> req[p].access \in {"read", "write"})
            /\ req[p].op = "write"
               => (req[p].ok <=> req[p].access = "write")
            /\ req[p].access \notin {"read", "write"} => ~req[p].ok

\* a non-owner holding "read" is denied by CanWriteAsset
C7_Witness ==
    \E p \in Procs :
        /\ NonOwnerDone(p)
        /\ req[p].op = "write"
        /\ req[p].access = "read"
        /\ ~req[p].ok

\* C8: with the store answering, a CanAccessAsset call that misses on a folder
\* shared "read" with the user answers true and its HSet leaves the user's
\* field in the ACL hash; a call that finds the field returns it without the
\* share query.
C8_ColdReadPopulates ==
    /\ [](\A p \in Procs :
            (/\ NonOwnerDone(p)
             /\ req[p].queried
             /\ req[p].op = "read"
             /\ req[p].qShare = "read")
            => req[p].ok)
    /\ [][\A p \in Procs :
            (/\ req[p].pc = "hset"
             /\ req'[p].pc = "expire"
             /\ ~req'[p].anyDown
             /\ req[p].acl[req[p].userID] # Absent)
            => aclCache'[req[p].assetID][req[p].userID]
                 = req[p].acl[req[p].userID]]_vars
    /\ [][\A p \in Procs :
            (/\ req[p].pc = "hget"
             /\ req'[p].pc # "hget"
             /\ ~req'[p].anyDown
             /\ aclCache[req[p].assetID][req[p].userID] # Absent)
            => (/\ req'[p].pc = "done"
                /\ req'[p].hit
                /\ ~req'[p].queried
                /\ req'[p].access = aclCache[req[p].assetID][req[p].userID]
                /\ req'[p].ok = Verdict(req[p].op, req'[p].access))]_vars

\* the first call has answered true from the share row and the hash holds
\* the field
C8_Witness ==
    \E p \in Procs :
        /\ NonOwnerDone(p)
        /\ req[p].queried
        /\ ~req[p].anyDown
        /\ req[p].op = "read"
        /\ req[p].qShare = "read"
        /\ req[p].ok
        /\ aclCache[req[p].assetID][req[p].userID] = "read"


\* C9: a set call with no element (SetTeamMembers with no member, SetACL with
\* no entry) sends no write command and changes no key, and no get answers an
\* empty set or map as a hit.
C9_EmptySetWritesNothing ==
    /\ [](~got.miss => got.n > 0)
    /\ [][(/\ lastCall'.tick # lastCall.tick
           /\ lastCall'.op \in {"SetTeamMembers", "SetACL"}
           /\ lastCall'.empty)
          => (/\ UNCHANGED <<aclCache, aclTTL, teamCache, teamTTL>>
              /\ emptyWrites' = emptyWrites)]_vars

\* SetTeamMembers was called with no member for a team without a key
C9_Witness ==
    /\ lastCall.op = "SetTeamMembers"
    /\ lastCall.empty
    /\ teamCache[lastCall.key] = {}
    /\ emptyWrites = 0

\* C10: a present team-membership entry holds at least the members the team
\* had at some past instant of the system of record.
C10_CachedMembersCoverSnapshot ==
    \A t \in Teams :
        teamCache[t] # {} => \E h \in memberHist[t] : h \subseteq teamCache[t]

(* ------------------------ consumer properties -------------------------- *)

\* the handler of the topic takes its step: the loop leaves "handle"
Handled(topic) ==
    loop[topic].pc = "handle" /\ loop'[topic].pc # "handle"

\* the step dispatches again the event the previous dispatch applied, on the
\* store as that dispatch left it, and its own command succeeds
AppliedAgain(topic, store) ==
    /\ Handled(topic)
    /\ clog[topic].last.done
    /\ clog[topic].last.value = loop[topic].msg.value
    /\ clog[topic].last.store = store
    /\ clog'[topic].last.done

\* C11: dispatching the same event (MEMBER_ADDED, MEMBER_REMOVED, a share or
\* unshare event) a second time in succession leaves the cache store as the
\* first dispatch left it, and the handler returns to the loop without error.
C11_HandlersIdempotent ==
    [][/\ AppliedAgain("team.activity", <<teamCache, teamTTL>>)
          => (/\ UNCHANGED <<teamCache, teamTTL, aclCache, aclTTL>>
              /\ loop'["team.activity"].pc = "top")
       /\ AppliedAgain("asset.changes", <<aclCache, aclTTL, metaCache>>)
          => (/\ UNCHANGED <<teamCache, teamTTL, aclCache, aclTTL, metaCache>>
              /\ loop'["asset.changes"].pc = "top")]_vars

\* MEMBER_ADDED has been dispatched twice in a row, both commands succeeding
C11_Witness ==
    LET h == clog["team.activity"]
    IN  /\ Len(h.order) = 2
        /\ h.order[1] = h.order[2]
        /\ h.lost = {}
        /\ h.last.done
        /\ h.last.value.json
        /\ h.last.value.payload.eventType = "MEMBER_ADDED"
        /\ loop["team.activity"].pc = "top"
        /\ "u2" \in teamCache["t1"]

\* the payload of the message the loop of the topic is handling
Handling(topic) ==
    Unmarshal(loop[topic].msg.value)

C13_ShareEventDeletesWholeKey ==
    [][(/\ Handled("asset.changes")
        /\ ~Handling("asset.changes").err
        /\ Handling("asset.changes").payload.eventType \in
             {"FOLDER_SHARED", "NOTE_SHARED", "FOLDER_UNSHARED",
              "NOTE_UNSHARED"}
        /\ clog'["asset.changes"].last.done)
       => (/\ aclCache'[Handling("asset.changes").payload.assetId] = NoFields
           /\ ~aclTTL'[Handling("asset.changes").payload.assetId])]_vars

\* the hash held u1 and u2; FOLDER_SHARED targeting u2 has removed both
C13_Witness ==
    LET h == clog["asset.changes"].last
    IN  /\ h.done
        /\ h.value.json
        /\ h.value.payload.eventType = "FOLDER_SHARED"
        /\ h.value.payload.targetUserId = "u2"
        /\ h.before[1]["f1"] = [u \in Users |-> "read"]
        /\ aclCache["f1"] = NoFields
        /\ loop["asset.changes"].pc = "top"

C15_SameKeyInPublishOrder ==
    \A topic \in Topics :
        LET order == clog[topic].order
        IN  \A i, j \in 1..Len(order) :
                (i < j /\ order[j] < order[i])
                => \E k \in 1..(i - 1) : order[k] = order[j]

\* C16: no event is lost: a message whose offset is committed (ReadMessage
\* has returned it) has had its cache command applied, or is the message the
\* handler is still working on.
C16_NoCommittedEventUnapplied ==
    \A topic \in Topics :
        \A i \in 1..Len(clog[topic].order) :
            \/ clog[topic].order[i] \in clog[topic].applied
            \/ (/\ loop[topic].pc = "handle"
                /\ loop[topic].msg.id = clog[topic].order[i])

\* C17: once cancellation has been signalled, every consumer loop reaches
\* Stopped.
C17_CancelLeadsToStopped ==
    cancelled ~> (\A topic \in Topics : loop[topic].pc = "stopped")

C19_EveryKeyHasTTL ==
    /\ \A t \in Teams :
          teamCache[t] # {}
          => (teamTTL[t] \/ (treq.pc = "expire" /\ treq.teamID = t))
    /\ \A a \in Assets :
          KeyExists(aclCache[a])
          => (aclTTL[a]
              \/ \E p \in Procs : req[p].pc = "expire" /\ req[p].assetID = a)

\* a step of the resolver, of a consumer handler or loop, or of a cache adapter
CacheLayerStep ==
    \/ \E p \in Procs : req'[p].pc # req[p].pc
    \/ Len(assetTopic') < Len(assetTopic)
    \/ Len(teamTopic') < Len(teamTopic)
    \/ loop' # loop
    \/ lastCall' # lastCall

\* C20: no step of the resolver (CanAccessAsset, CanWriteAsset, IsAssetOwner,
\* the ACL rebuild), of the consumer handlers or of the cache adapters changes
\* a row of the system of record.
C20_CacheLayerLeavesRecordAlone ==
    [][CacheLayerStep => UNCHANGED <<owner, shares, members>>]_vars

\* a FOLDER_SHARED event has been dispatched and a call has rebuilt the ACL,
\* the share row being as ShareFolder wrote it
C20_Witness ==
    /\ clog["asset.changes"].last.done
    /\ clog["asset.changes"].last.value.payload.eventType = "FOLDER_SHARED"
    /\ \E p \in Procs :
          /\ req[p].pc = "done"
          /\ req[p].queried
          /\ req[p].qShare = "write"
          /\ shares[req[p].assetID][req[p].userID] = "write"
          /\ aclCache[req[p].assetID][req[p].userID] = "write"

\* C21: whatever order an ACL invalidation for an unshare and a cache-aside
\* rebuild of the same asset complete in, once both have completed (the
\* FOLDER_UNSHARED event is dispatched and its Del succeeded, no resolver call
\* is in flight, the share has not been created again) the ACL hash of the
\* asset holds no field for the user whose share was removed.
C21_NoGrantAfterInvalidateAndRebuild ==
    LET h == clog["asset.changes"].last
    IN  (/\ h.done
         /\ h.value.json
         /\ h.value.payload.eventType = "FOLDER_UNSHARED"
         /\ \A p \in Procs : req[p].pc \in {"idle", "done"})
        => \A a \in Assets, u \in Users :
              (/\ h.value.payload.assetId = a
               /\ h.value.payload.targetUserId = u
               /\ shares[a][u] = Absent)
              => aclCache[a][u] = Absent

\* C22: the ACL hash of an asset is never partially patched: a step that
\* changes it either deletes the whole key or is the rebuild's write, and
\* right after the rebuild's write the hash equals exactly the share rows the
\* rebuild's query returned, with no field left from an earlier population.
C22_NoPartialPatch ==
    [][\A a \in Assets :
          aclCache'[a] # aclCache[a]
          => \/ aclCache'[a] = NoFields
             \/ \E p \in Procs :
                   /\ req[p].pc = "hset"
                   /\ req'[p].pc = "expire"
                   /\ req[p].assetID = a
                   /\ aclCache'[a] = req[p].acl]_vars

\* C23: when the ACL hash of the asset exists and has no field for the user,
\* and the store answers the lookup, the resolver takes this as a hit meaning
\* no access: the call denies at once, without querying the share rows and
\* without writing the hash.
C23_AbsentFieldIsHit ==
    [][\A p \in Procs :
          (/\ req[p].pc = "hget"
           /\ req'[p].pc # "hget"
           /\ KeyExists(aclCache[req[p].assetID])
           /\ aclCache[req[p].assetID][req[p].userID] = Absent
           /\ ~req'[p].anyDown)
          => (/\ req'[p].pc = "done"
              /\ ~req'[p].ok
              /\ ~req'[p].queried)]_vars

\* no mutation of a folder is in progress, no read is in flight, and every
\* event has been published and consumed
Quiescent ==
    /\ fget.pc \in {"idle", "done"}
    /\ fupd.pc = "idle"
    /\ spawned = {}
    /\ assetTopic = <<>>

\* C24: once mutations of a folder have stopped, the reads in flight have
\* finished and all its events are consumed, the snapshot folder:{id}, if
\* present, equals the folder's row in the system of record.
C24_SnapshotEqualsRecordWhenQuiet ==
    Quiescent
    => \A a \in Assets :
          metaCache[MetaKey("folder", a)] # Nil
          => (/\ owner[a] # NoOwner
              /\ metaCache[MetaKey("folder", a)] = Marshal(FolderRow(a)))

\* C25: the mutation publishes its event before it goes on, so the events of
\* two mutations of the same asset (or team) that commit one after the other
\* are on the topic in the order of the commits.
C25_PublishedInCommitOrder ==
    /\ \A i, j \in 1..Len(assetTopic) :
          (i < j /\ assetTopic[i].assetId = assetTopic[j].assetId)
          => assetTopic[i].id < assetTopic[j].id
    /\ \A i, j \in 1..Len(teamTopic) :
          (i < j /\ teamTopic[i].teamId = teamTopic[j].teamId)
          => teamTopic[i].id < teamTopic[j].id

\* C26: the key of a message (the team identifier, the asset identifier)
\* decides its partition: two messages of a topic that carry the same key
\* are in the same partition.
C26_SameKeySamePartition ==
    \A topic \in Topics :
        \A p, q \in Partitions :
            \A i \in 1..Len(parts[topic][p]), j \in 1..Len(parts[topic][q]) :
                parts[topic][p][i].key = parts[topic][q][j].key => p = q

\* the step commits the mutation that event e reports: it changes the row e
\* is about, or (FOLDER_UPDATED) follows the committed Update of the call
CommitsMutationOf(e) ==
    CASE e.eventType \in {"MEMBER_ADDED", "MEMBER_REMOVED"}
           -> (e.targetUserId \in members'[e.teamId])
              # (e.targetUserId \in members[e.teamId])
      [] e.eventType \in {"FOLDER_SHARED", "FOLDER_UNSHARED"}
           -> shares'[e.assetId][e.targetUserId]
              # shares[e.assetId][e.targetUserId]
      [] e.eventType = "FOLDER_DELETED"
           -> owner[e.assetId] # NoOwner /\ owner'[e.assetId] = NoOwner
      [] e.eventType = "FOLDER_UPDATED"
           -> fupd.pc = "set" /\ fupd.assetID = e.assetId
      [] OTHER -> FALSE

\* C27: an event is emitted only by a mutation that has committed a change
\* to the system of record: a mutation that fails, rolls back or changes no
\* row emits nothing.
C27_EventOnlyAfterCommit ==
    [][\A e \in spawned' \ spawned : CommitsMutationOf(e)]_vars

\* C28: a cached members set that holds a malformed user identifier is a
\* total miss: the read takes the member list of the system of record and
\* uses neither a part of the cached set nor a zero identifier put in the
\* place of the malformed one.
C28_MalformedMemberIsMiss ==
    (treq.pc = "done" /\ treq.err = ErrNil
     /\ Garbled \in teamCache[treq.teamID])
    => (/\ ~treq.hit
        /\ ZeroUUID \notin treq.memberIDs
        /\ treq.memberIDs = members[treq.teamID])

\* C29: a cached snapshot whose stored value does not decode is a miss: the
\* read falls back to the system of record and never answers a wrong-shaped
\* (zero-valued) folder.
C29_CorruptSnapshotIsMiss ==
    (fget.pc = "done" /\ fget.corrupt)
    => (/\ ~fget.hit
        /\ fget.resp.body # ZeroFolder)

\* C30: dispatching an asset.changes event, whatever its event type, with a
\* non-empty asset type and a non-empty asset identifier sends the Del of the
\* key {assetType}:{assetId}, which is gone when the command succeeds, the
\* other snapshot keys staying; an event with an empty asset type or an empty
\* asset identifier sends no Del and leaves every snapshot key.
C30_AssetEventDeletesMetaKey ==
    [][(Handled("asset.changes") /\ ~Handling("asset.changes").err)
       => LET e == Handling("asset.changes").payload
              k == MetaKey(e.assetType, e.assetId)
          IN  IF e.assetType # "" /\ e.assetId # ""
              THEN /\ clog'["asset.changes"].sent = {k}
                   /\ clog'["asset.changes"].last.done
                      => metaCache' = Del(metaCache, k)
              ELSE /\ clog'["asset.changes"].sent = {}
                   /\ metaCache' = metaCache]_vars

\* FOLDER_UPDATED, not a share event, has been dispatched for folder f1,
\* whose snapshot was cached, and the key is gone
C30_Witness ==
    LET h == clog["asset.changes"]
    IN  /\ h.last.done
        /\ h.last.value.json
        /\ h.last.value.payload.eventType = "FOLDER_UPDATED"
        /\ h.last.value.payload.assetType = "folder"
        /\ h.last.value.payload.assetId = "f1"
        /\ h.sent = {"folder:f1"}
        /\ h.last.before[3]["folder:f1"] # Nil
        /\ metaCache["folder:f1"] = Nil
        /\ loop["asset.changes"].pc = "top"

\* the loop of the topic receives a message
Received(topic) ==
    clog'[topic].order # clog[topic].order

\* C31: dispatch is synchronous within the loop of a subscription: the loop
\* holds at most one message, it holds one exactly while its handler runs,
\* and a message is received only when the handler of every message received
\* before on that subscription has returned.
C31_DispatchIsSynchronous ==
    /\ [](\A topic \in Topics :
             loop[topic].msg # NoMsg <=> loop[topic].pc = "handle")
    /\ [][\A topic \in Topics :
             Received(topic)
             => (/\ loop[topic].pc = "receive"
                 /\ loop[topic].msg = NoMsg
                 /\ \A i \in 1..Len(clog[topic].order) :
                       clog[topic].order[i] \in
                         clog[topic].applied \cup clog[topic].lost
                 /\ loop'[topic].pc = "handle"
                 /\ loop'[topic].msg.id =
                      clog'[topic].order[Len(clog'[topic].order)])]_vars

\* the loop of asset.changes has received a second event, after the handler
\* of the first returned
C31_Witness ==
    LET h == clog["asset.changes"]
    IN  /\ Len(h.order) = 2
        /\ h.order[1] # h.order[2]
        /\ h.order[1] \in h.applied \cup h.lost
        /\ loop["asset.changes"].pc = "handle"
        /\ loop["asset.changes"].msg.id = h.order[2]

\* the keys the handler of team.activity sends a command for
KeysOfTeamEvent(payload) ==
    IF payload.eventType \in {"MEMBER_ADDED", "MEMBER_REMOVED"}
    THEN {TeamKey(payload.teamId)}
    ELSE {}

\* the keys the handler of asset.changes sends a command for
KeysOfAssetEvent(payload) ==
    (IF InvalidatesAsset(payload.assetType, payload.assetId)
     THEN {MetaKey(payload.assetType, payload.assetId)} ELSE {})
    \cup (IF InvalidatesACL(payload.eventType)
          THEN {ACLKey(payload.assetId)} ELSE {})

\* C32: the two loops touch disjoint key spaces: dispatching a team event
\* sends a command for a team:{teamId}:members key only and changes no
\* snapshot or ACL key, dispatching an asset event sends commands for
\* {assetType}:{assetId} and asset:{assetId}:acl keys only and changes no
\* team key.
C32_DisjointKeySpaces ==
    [][/\ Handled("team.activity")
          => (/\ UNCHANGED <<aclCache, aclTTL, metaCache>>
              /\ KeysOfTeamEvent(Handling("team.activity").payload)
                   \cap (MetaKeys \cup {ACLKey(a) : a \in Assets}) = {}
              /\ \A t \in Teams :
                    TeamKey(t) \notin
                      KeysOfTeamEvent(Handling("team.activity").payload)
                    => teamCache'[t] = teamCache[t])
       /\ Handled("asset.changes")
          => (/\ UNCHANGED <<teamCache, teamTTL>>
              /\ KeysOfAssetEvent(Handling("asset.changes").payload)
                   \cap {TeamKey(t) : t \in Teams} = {}
              /\ \A k \in MetaKeys :
                    k \notin KeysOfAssetEvent(Handling("asset.changes").payload)
                    => metaCache'[k] = metaCache[k]
              /\ \A a \in Assets :
                    ACLKey(a) \notin
                      KeysOfAssetEvent(Handling("asset.changes").payload)
                    => aclCache'[a] = aclCache[a])]_vars

\* MEMBER_REMOVED has taken u2 out of the set of t1; the ACL hash and the
\* snapshot of f1 are as they were
C32_Witness ==
    LET h == clog["team.activity"].last
    IN  /\ h.done
        /\ h.value.json
        /\ h.value.payload.eventType = "MEMBER_REMOVED"
        /\ teamCache["t1"] = {"u1"}
        /\ aclCache["f1"] = [u \in Users |-> "read"]
        /\ metaCache[MetaKey("folder", "f1")] # Nil

\* call p sends its Expire while the hash holds a field of user u that
\* comes from a query made before the query of p, under a running expiry
KeptFromEarlier(p, u) ==
    /\ req[p].pc = "expire"
    /\ req'[p].pc = "done"
    /\ aclTTL[req[p].assetID]
    /\ aclCache[req[p].assetID][u] # Absent
    /\ times.born[req[p].assetID][u] < req[p].qAt

\* C33: a grant served from the ACL hash comes from a query of the share
\* rows made at most one hour before it is served, and a later rebuild of
\* the hash never moves the deadline of a field that an earlier rebuild
\* wrote.
C33_GrantAtMostOneHourOld ==
    /\ [](\A p \in Procs :
             (/\ req[p].pc = "done"
              /\ req[p].hit
              /\ req[p].access \in Levels)
             => req[p].age <= Hour)
    /\ [][\A p \in Procs, u \in Users :
             KeptFromEarlier(p, u)
             => times'.deadline[req[p].assetID]
                  <= times.deadline[req[p].assetID]]_vars

\* C34: a call of CanAccessAsset or CanWriteAsset whose ownership query finds
\* no row for the asset (the asset was deleted) answers not-found for every
\* user, whatever the ACL hash holds: the call ends there, before any cache
\* lookup and any query of the share rows.
C34_DeletedAssetNeverReachesCache ==
    \A p \in Procs :
        /\ req[p].pc \in {"hget", "fetch", "hset", "expire"}
           => (~req[p].dbFail /\ req[p].dbOwner # NoOwner)
        /\ (/\ req[p].pc = "done"
            /\ ~req[p].dbFail
            /\ req[p].dbOwner = NoOwner)
           => (/\ ~req[p].hit
               /\ ~req[p].queried
               /\ ~req[p].ok
               /\ req[p].err = StatusNotFound)

\* u2 asks to write the deleted folder while the hash still gives u2 "write":
\* the answer is not-found
C34_Witness ==
    \E p \in Procs :
        /\ req[p].pc = "done"
        /\ req[p].op = "write"
        /\ req[p].userID = "u2"
        /\ owner[req[p].assetID] = NoOwner
        /\ req[p].dbOwner = NoOwner
        /\ ~req[p].dbFail
        /\ aclCache[req[p].assetID]["u2"] = "write"
        /\ req[p].err = StatusNotFound

\* C35: AssetAccessMiddleware calls the protected handler exactly when the
\* check answers (true, nil); it aborts with 403 when the check answers
\* (false, nil) and with the status of the error when the check answers an
\* error.
C35_MiddlewarePassesIffPermitted ==
    \A p \in Procs :
        req[p].pc = "done" =>
            /\ req[p].http = "next" <=> (req[p].ok /\ req[p].err = ErrNil)
            /\ (~req[p].ok /\ req[p].err = ErrNil)
               => req[p].http = "abort" \o StatusForbidden
            /\ req[p].err # ErrNil => req[p].http = "abort" \o req[p].err

\* C36: dispatching a team event of a type other than MEMBER_ADDED and
\* MEMBER_REMOVED changes no key of the store, and dispatching an asset event
\* of a type other than the four share and unshare types changes no ACL key
\* (and no team key).
C36_OtherTypesLeaveKeys ==
    [][/\ (/\ Handled("team.activity")
           /\ ~Handling("team.activity").err
           /\ Handling("team.activity").payload.eventType
                \notin {"MEMBER_ADDED", "MEMBER_REMOVED"})
          => UNCHANGED <<teamCache, teamTTL, aclCache, aclTTL, metaCache>>
       /\ (/\ Handled("asset.changes")
           /\ ~Handling("asset.changes").err
           /\ Handling("asset.changes").payload.eventType
                \notin {"FOLDER_SHARED", "NOTE_SHARED", "FOLDER_UNSHARED",
                        "NOTE_UNSHARED"})
          => UNCHANGED <<aclCache, aclTTL, teamCache, teamTTL>>]_vars

\* FOLDER_UPDATED has been dispatched and has deleted the snapshot of f1; the
\* ACL hash of f1 holds what it held
C36_Witness ==
    LET h == clog["asset.changes"].last
    IN  /\ h.done
        /\ h.value.json
        /\ h.value.payload.eventType = "FOLDER_UPDATED"
        /\ h.value.payload.assetType = "folder"
        /\ h.value.payload.assetId = "f1"
        /\ h.before[3][MetaKey("folder", "f1")] # Nil
        /\ metaCache[MetaKey("folder", "f1")] = Nil
        /\ aclCache["f1"] = [u \in Users |-> "read"]
        /\ aclTTL["f1"]

\* C37: a share record of a folder is created, changed or deleted, and a
\* share event emitted, only by a call whose requester is the owner of the
\* folder in the system of record, and only with the level read or write; a
\* call by another user or with another level fails, changes no share record
\* and emits no event.
C37_OnlyOwnerChangesShares ==
    /\ [](\A a \in Assets, u \in Users : shares[a][u] \in Levels \cup {Absent})
    /\ [][/\ (shares' # shares \/ emitted' # emitted)
             => (/\ ~sreq'.failed
                 /\ sreq'.requester = owner[sreq'.folderID]
                 /\ sreq'.op = "share" => sreq'.level \in {"read", "write"})
          /\ (/\ sreq' # sreq
              /\ \/ sreq'.requester # owner[sreq'.folderID]
                 \/ sreq'.op = "share" /\ sreq'.level \notin {"read", "write"})
             => (sreq'.failed /\ UNCHANGED <<shares, spawned, emitted>>)]_vars

\* the owner has shared f1 with u2; u2's own call to raise the level to
\* "write" has failed and left the record at "read"
C37_Witness ==
    /\ sreq.op = "share"
    /\ sreq.requester = "u2"
    /\ sreq.requester # owner[sreq.folderID]
    /\ sreq.target = "u2"
    /\ sreq.level = "write"
    /\ sreq.failed
    /\ shares["f1"]["u2"] = "read"
    /\ emitted = 1

\* C38: every team that exists has exactly one lead manager, in every state
\* reached through CreateTeam, AddManager and RemoveManager.
C38_ExactlyOneLead ==
    \A t \in Teams :
        managers[t].exists => leadManagerCount(managers[t].role) = 1

====
